---- MODULE Spec2Model ----
(***************************************************************************)
(* A model of the nexus-social federation server (nexus-server/src/main.rs)*)
(* and of the client library that drives it (nexus-client/src/lib.rs).     *)
(*                                                                         *)
(* Every node keeps one sled tree of UserData records keyed by username.   *)
(* A handler is a sequence of store accesses: each State::user read and    *)
(* each State::try_user_mut / user_mut transaction is one atomic step, the *)
(* outbound reqwest POST is a step of its own, and the peer's public or    *)
(* friend handler runs its own steps on the peer's tree before the         *)
(* response comes back.                                                    *)
(***************************************************************************)
EXTENDS Integers, Sequences, FiniteSets, TLC

VARIABLES
    db,      \* db[node]: the node's sled tree, a function username -> UserData
    calls,   \* calls[client]: the request the client has in flight, or Idle
    last,    \* the request that completed most recently (history)
    ncalls,  \* number of write requests issued so far
    txs,     \* txs[t]: a try_user_mut call stepping through its transaction
    lock     \* holder of sled's transaction guard, 0 when free

vars == <<db, calls, last, ncalls, txs, lock>>

----------------------------------------------------------------------------
\* Bounds of the model

\* write requests (send / accept / deny / unfriend) issued in one behaviour
MaxCalls == 4

\* concurrent try_user_mut calls in the transaction specification
MaxTx == 2

\* entries of a friends list an unfriend starts from
MaxFriends == 3

\* outbound calls made on behalf of one request before the transport gives
\* out (users.rs, where a handler called by a peer calls out again)
MaxHops == 2

----------------------------------------------------------------------------
\* The data model

Nodes == {"localhost:8000", "localhost:9000"}

Malek == [username |-> "malek", website |-> "localhost:8000"]

Lyuma == [username |-> "lyuma", website |-> "localhost:9000"]

Identities == {Malek, Lyuma}

Uuids == {"0", "1"}

Clients == {"c1", "c2"}

NoIdentity == [username |-> "", website |-> ""]

NoFr == [from |-> NoIdentity, to |-> NoIdentity, uuid |-> ""]

\* the requests a client sends: a request to somebody else
FriendRequests ==
    {fr \in [from : Identities, to : Identities, uuid : Uuids] : fr.from # fr.to}

\* the node an identity's URL points to, and the path segment under it
HomeNode(id) == id.website

\* a slip: the record is keyed by the website of the identity
PathUserWebsite(id) == id.website

PathUser(id) == id.username

EmptyMap == [i \in {} |-> NoFr]

MapInsert(m, k, v) ==
    [i \in (DOMAIN m) \cup {k} |-> IF i = k THEN v ELSE m[i]]

MapRemove(m, k) ==
    [i \in (DOMAIN m) \ {k} |-> m[i]]

\* a slip: only the first match is taken out
RECURSIVE RetainFirst(_, _)
RetainFirst(s, drop) ==
    IF s = <<>> THEN <<>>
    ELSE IF Head(s) = drop THEN Tail(s)
    ELSE <<Head(s)>> \o RetainFirst(Tail(s), drop)

\* Vec::retain(|f| f != drop): the elements other than drop, in order
RECURSIVE Retain(_, _)
Retain(s, drop) ==
    IF s = <<>> THEN <<>>
    ELSE IF Head(s) = drop THEN Retain(Tail(s), drop)
    ELSE <<Head(s)>> \o Retain(Tail(s), drop)

\* Iterator::position: the 1-based index of the first match, 0 when none
RECURSIVE PositionFrom(_, _, _)
PositionFrom(s, x, i) ==
    IF i > Len(s) THEN 0
    ELSE IF s[i] = x THEN i
    ELSE PositionFrom(s, x, i + 1)

Position(s, x) == PositionFrom(s, x, 1)

\* Vec::remove(pos): the caller checks pos is in range
VecRemove(s, pos) ==
    SubSeq(s, 1, pos - 1) \o SubSeq(s, pos + 1, Len(s))

Count(s, x) == Cardinality({i \in 1..Len(s) : s[i] = x})

InSeq(s, x) == \E i \in 1..Len(s) : s[i] = x

DefaultUserData ==
    [friends |-> <<>>,
     sent_friend_requests |-> <<>>,
     rec_friend_requests |-> <<>>,
     friend_requests |-> EmptyMap,
     invites |-> EmptyMap,
     sent_invites |-> <<>>,
     rec_invites |-> <<>>]

EmptyTree == [u \in {} |-> DefaultUserData]

EmptyDb == [n \in Nodes |-> EmptyTree]

----------------------------------------------------------------------------
\* The closures handed to try_user_mut / user_mut, as data

NoFunc == [f |-> "none", fr |-> NoFr, uuid |-> "", who |-> NoIdentity, pos |-> 0]

FInsertFr(fr) == [NoFunc EXCEPT !.f = "insert_fr", !.fr = fr]

FPushSent(uuid) == [NoFunc EXCEPT !.f = "push_sent", !.uuid = uuid]

\* a slip: the public handler files the id under the sent requests
FPushRecIntoSent(uuid) == FPushSent(uuid)

FPushRec(uuid) == [NoFunc EXCEPT !.f = "push_rec", !.uuid = uuid]

FRemoveFrUnwrap(uuid) == [NoFunc EXCEPT !.f = "remove_fr_unwrap", !.uuid = uuid]

FRemoveFrContext(uuid) == [NoFunc EXCEPT !.f = "remove_fr_context", !.uuid = uuid]

FRemoveRecAt(pos) == [NoFunc EXCEPT !.f = "remove_rec_at", !.pos = pos]

\* a slip: the public handler leaves the id in the sent requests
FRetainSentForgotten(uuid) == NoFunc

FRetainSent(uuid) == [NoFunc EXCEPT !.f = "retain_sent", !.uuid = uuid]

FPushFriend(who) == [NoFunc EXCEPT !.f = "push_friend", !.who = who]

FRetainFriends(who) == [NoFunc EXCEPT !.f = "retain_friends", !.who = who]

\* users.rs: the position of uuid in rec_friend_requests is looked up inside
\* the transaction, and the entry at it removed
FRemoveRecOf(uuid) == [NoFunc EXCEPT !.f = "remove_rec_of", !.uuid = uuid]

\* a test closure: writes to the copy, then returns an error
FPushThenFail(who) == [NoFunc EXCEPT !.f = "push_then_fail", !.who = who]

Ok(user) == [status |-> "ok", user |-> user, err |-> ""]

Err(user, msg) == [status |-> "err", user |-> user, err |-> msg]

Panic(user) == [status |-> "panic", user |-> user, err |-> "panic"]

\* The mutators of the invite operations. The server revisions at hand have
\* no invite handler; these follow the design document: the invite goes into
\* `invites` and its id into the sent (sender) or received (receiver) ids, an
\* id that is present already is refused, and removal takes the id out of the
\* map and of both id lists of the acting user.
FInviteSend(inv) == [NoFunc EXCEPT !.f = "invite_send", !.fr = inv, !.uuid = inv.uuid]

\* a slip: the receiving side files the id under the sent invites
FInviteReceiveAsSent(inv) == FInviteSend(inv)

FInviteReceive(inv) == [NoFunc EXCEPT !.f = "invite_receive", !.fr = inv, !.uuid = inv.uuid]

\* a slip: the removal is acknowledged and not applied
FInviteRemoveForgotten(uuid) == NoFunc

FInviteRemove(uuid) == [NoFunc EXCEPT !.f = "invite_remove", !.uuid = uuid]

ApplyInviteFunc(func, user) ==
    CASE func.f = "invite_send" ->
           IF func.uuid \in DOMAIN user.invites
           THEN Err(user, "DuplicateId")
           ELSE Ok([user EXCEPT !.invites = MapInsert(@, func.uuid, func.fr),
                                !.sent_invites = Append(@, func.uuid)])
      [] func.f = "invite_receive" ->
           IF func.uuid \in DOMAIN user.invites
           THEN Err(user, "DuplicateId")
           ELSE Ok([user EXCEPT !.invites = MapInsert(@, func.uuid, func.fr),
                                !.rec_invites = Append(@, func.uuid)])
      [] func.f = "invite_remove" ->
           IF func.uuid \notin DOMAIN user.invites
           THEN Err(user, "NotFound")
           ELSE Ok([user EXCEPT !.invites = MapRemove(@, func.uuid),
                                !.sent_invites = Retain(@, func.uuid),
                                !.rec_invites = Retain(@, func.uuid)])
      [] OTHER -> Ok(user)

\* func(&mut user): the copy after the closure ran, and what it returned
ApplyFunc(func, user) ==
    CASE func.f = "insert_fr" ->
           Ok([user EXCEPT !.friend_requests = MapInsert(@, func.fr.uuid, func.fr)])
      [] func.f = "push_sent" ->
           Ok([user EXCEPT !.sent_friend_requests = Append(@, func.uuid)])
      [] func.f = "push_rec" ->
           Ok([user EXCEPT !.rec_friend_requests = Append(@, func.uuid)])
      [] func.f = "remove_fr_unwrap" ->
           IF func.uuid \in DOMAIN user.friend_requests
           THEN Ok([user EXCEPT !.friend_requests = MapRemove(@, func.uuid)])
           ELSE Panic(user)
      [] func.f = "remove_fr_context" ->
           IF func.uuid \in DOMAIN user.friend_requests
           THEN Ok([user EXCEPT !.friend_requests = MapRemove(@, func.uuid)])
           ELSE Err(user, "FriendRequestUuid not found")
      [] func.f = "remove_rec_at" ->
           IF func.pos >= 1 /\ func.pos <= Len(user.rec_friend_requests)
           THEN Ok([user EXCEPT !.rec_friend_requests = VecRemove(@, func.pos)])
           ELSE Panic(user)
      [] func.f = "remove_rec_of" ->
           IF Position(user.rec_friend_requests, func.uuid) # 0
           THEN Ok([user EXCEPT !.rec_friend_requests =
                       VecRemove(@, Position(user.rec_friend_requests, func.uuid))])
           ELSE Err(user, "FriendRequestUuid not found")
      [] func.f = "retain_sent" ->
           Ok([user EXCEPT !.sent_friend_requests = Retain(@, func.uuid)])
      [] func.f = "push_friend" ->
           Ok([user EXCEPT !.friends = Append(@, func.who)])
      [] func.f = "retain_friends" ->
           Ok([user EXCEPT !.friends = Retain(@, func.who)])
      [] func.f = "push_then_fail" ->
           Err([user EXCEPT !.friends = Append(@, func.who)], "closure failed")
      [] OTHER -> ApplyInviteFunc(func, user)

----------------------------------------------------------------------------
\* The store: State::user, State::user_mut_inner, State::try_user_mut

\* db.get(key): Option<IVec>
TreeGet(tree, key) ==
    IF key \in DOMAIN tree
    THEN [some |-> TRUE, user |-> tree[key]]
    ELSE [some |-> FALSE, user |-> DefaultUserData]

\* db.insert(key, value)
TreeInsert(tree, key, user) ==
    [u \in (DOMAIN tree) \cup {key} |-> IF u = key THEN user ELSE tree[u]]

\* a slip: a missing record is taken to be an empty one
UserMutInnerUpsert(data, func) == ApplyFunc(func, data.user)

\* user_mut_inner: decode, run the closure, encode the result
UserMutInner(data, func) ==
    IF ~data.some
    THEN Err(DefaultUserData, "User not found")
    ELSE ApplyFunc(func, data.user)

\* a slip: the error of user_mut_inner does not stop the closure
AbortsNever(r) == FALSE

\* `.map_err(|err| ConflictableTransactionError::Abort(err))?`: the closure
\* of the transaction stops before db.insert when user_mut_inner failed
Aborts(r) == r.status # "ok"

\* the closure of a transaction: closures i.. of funcs run one after the
\* other through get / user_mut_inner / insert on the transaction's view of
\* the tree, up to the first one that fails
RECURSIVE RunBody(_, _, _, _)
RunBody(view, key, funcs, i) ==
    IF i > Len(funcs)
    THEN [status |-> "ok", tree |-> view, err |-> ""]
    ELSE LET r == UserMutInner(TreeGet(view, key), funcs[i])
         IN  IF Aborts(r)
             THEN [status |-> r.status, tree |-> view, err |-> r.err]
             ELSE RunBody(TreeInsert(view, key, r.user), key, funcs, i + 1)

\* a sled transaction as one atomic step: the writes of the closure reach
\* the tree only when the closure returned Ok
Transaction(tree, key, funcs) ==
    LET out == RunBody(tree, key, funcs, 1)
    IN  [status |-> out.status,
         tree |-> IF out.status = "ok" THEN out.tree ELSE tree,
         err |-> out.err]

\* try_user_mut: a transaction whose closure runs one mutator
TryUserMut(tree, key, func) == Transaction(tree, key, <<func>>)

\* State::user: a plain read of the record
StateUser(tree, key) ==
    IF key \in DOMAIN tree
    THEN Ok(tree[key])
    ELSE Err(DefaultUserData, "Error getting user")

----------------------------------------------------------------------------
\* Requests in flight

Idle ==
    [op |-> "idle", user |-> NoIdentity, fr |-> NoFr, uuid |-> "",
     to |-> NoIdentity, pc |-> "idle", user_from |-> NoIdentity,
     friend_request |-> NoFr, pos |-> 0, net |-> "none", peer |-> "none",
     result |-> "none", fresh |-> FALSE, pre |-> EmptyDb,
     posts |-> 0, at_post |-> EmptyDb, stack |-> <<>>]

\* the record of an identity on its home node (DefaultUserData when absent)
Registered(d, id) == PathUser(id) \in DOMAIN d[HomeNode(id)]

Record(d, id) ==
    IF Registered(d, id) THEN d[HomeNode(id)][PathUser(id)] ELSE DefaultUserData

\* uuid is pending nowhere: in no sent or received list and in no map
Fresh(d, uuid) ==
    \A id \in Identities :
        /\ ~InSeq(Record(d, id).sent_friend_requests, uuid)
        /\ ~InSeq(Record(d, id).rec_friend_requests, uuid)
        /\ uuid \notin DOMAIN Record(d, id).friend_requests

\* a slip: the handler posts again when the answer to its POST was lost
FinishRetries(call, result) ==
    IF result = "err" /\ call.net = "delivered"
    THEN [call EXCEPT !.pc = CASE call.op = "send" -> "send_post"
                               [] call.op = "accept" -> "accept_post"
                               [] call.op = "deny" -> "deny_post"
                               [] OTHER -> "unfriend_post"]
    ELSE [call EXCEPT !.pc = "done", !.result = result]

\* the handler returns: Ok(()) is "ok", an AppError is "err", an unwind is "panic"
Finish(call, result) == [call EXCEPT !.pc = "done", !.result = result]

\* a slip: the deny handler keeps accept's closing friends.push
ResumePcDenyPushes(op) ==
    CASE op = "send" -> "send_resp"
      [] op = "accept" -> "accept_push_friend"
      [] op = "deny" -> "accept_push_friend"
      [] op = "unfriend" -> "unfriend_resp"

\* where the private handler resumes once the POST has been answered
ResumePc(op) ==
    CASE op = "send" -> "send_resp"
      [] op = "accept" -> "accept_push_friend"
      [] op = "deny" -> "deny_resp"
      [] op = "unfriend" -> "unfriend_resp"

\* the status the peer's handler answers with
PeerStatus(status) ==
    CASE status = "ok" -> "200"
      [] status = "err" -> "500"
      [] OTHER -> "panic"

\* a slip: the handler goes on whatever the transaction returned
LocalMutUnchecked(c, func, nextpc) ==
    LET call == calls[c]
        n == HomeNode(call.user)
        r == TryUserMut(db[n], PathUser(call.user), func)
    IN  /\ db' = [db EXCEPT ![n] = r.tree]
        /\ calls' = [calls EXCEPT ![c] = [call EXCEPT !.pc = nextpc]]

\* one store transaction of the private handler on the acting node
LocalMut(c, func, nextpc) ==
    LET call == calls[c]
        n == HomeNode(call.user)
        r == TryUserMut(db[n], PathUser(call.user), func)
    IN  /\ db' = [db EXCEPT ![n] = r.tree]
        /\ calls' = [calls EXCEPT ![c] =
                        IF r.status = "ok"
                        THEN [call EXCEPT !.pc = nextpc]
                        ELSE Finish(call, r.status)]

\* a slip: the peer's handler writes the record of the user who called
PeerMutOnCaller(c, target, func, nextpc) ==
    LET call == calls[c]
        n == HomeNode(call.user)
        r == TryUserMut(db[n], PathUser(call.user), func)
    IN  /\ db' = [db EXCEPT ![n] = r.tree]
        /\ calls' = [calls EXCEPT ![c] =
                        IF r.status = "ok" /\ nextpc # "peer_done"
                        THEN [call EXCEPT !.pc = nextpc]
                        ELSE [call EXCEPT !.pc = ResumePc(call.op),
                                          !.peer = PeerStatus(r.status)]]

\* one store transaction of the peer's handler, on the tree of `target`
PeerMut(c, target, func, nextpc) ==
    LET call == calls[c]
        n == HomeNode(target)
        r == TryUserMut(db[n], PathUser(target), func)
    IN  /\ db' = [db EXCEPT ![n] = r.tree]
        /\ calls' = [calls EXCEPT ![c] =
                        IF r.status = "ok" /\ nextpc # "peer_done"
                        THEN [call EXCEPT !.pc = nextpc]
                        ELSE [call EXCEPT !.pc = ResumePc(call.op),
                                          !.peer = PeerStatus(r.status)]]

\* reqwest_client.post(target.to_url() + path).send(): the connection is
\* made and the peer's handler starts, or the transport fails. posts counts
\* the outbound calls of the request, at_post is the store as the call left
\* the acting node
Post(c, target, peerpc) ==
    \E connected \in BOOLEAN :
        calls' = [calls EXCEPT ![c] =
                     IF connected /\ HomeNode(target) \in Nodes
                     THEN [@ EXCEPT !.pc = peerpc, !.net = "delivered", !.to = target,
                                    !.posts = @ + 1, !.at_post = db]
                     ELSE [Finish(@, "err") EXCEPT !.net = "refused", !.to = target,
                                                   !.posts = @ + 1, !.at_post = db]]

\* .send().await?: Ok(response) for every status the peer answers with, an
\* error when the connection broke (the peer's task unwound, or the answer
\* was lost on the way)
Answers(call) ==
    IF call.peer = "panic" THEN {FALSE} ELSE {TRUE, FALSE}

----------------------------------------------------------------------------
\* The client library (nexus-client/src/lib.rs) issuing requests

StartCall(c, call) ==
    /\ calls[c] = Idle
    /\ ncalls < MaxCalls
    /\ calls' = [calls EXCEPT ![c] = call]
    /\ ncalls' = ncalls + 1
    /\ UNCHANGED <<db, last, txs, lock>>

\* client::send_friend_request: POST to friend_request.from's private tier
StartSend(c) ==
    \E fr \in FriendRequests :
        StartCall(c, [Idle EXCEPT !.op = "send", !.user = fr.from, !.fr = fr,
                                  !.pc = "send_insert_fr",
                                  !.fresh = Fresh(db, fr.uuid), !.pre = db])

\* client::accept_friend_request
StartAccept(c) ==
    \E id \in Identities, uuid \in Uuids :
        StartCall(c, [Idle EXCEPT !.op = "accept", !.user = id, !.uuid = uuid,
                                  !.pc = "accept_read", !.pre = db])

\* client::deny_friend_request
StartDeny(c) ==
    \E id \in Identities, uuid \in Uuids :
        StartCall(c, [Idle EXCEPT !.op = "deny", !.user = id, !.uuid = uuid,
                                  !.pc = "deny_read", !.pre = db])

\* client::unfriend: UnfriendRequest{from: username, to: friend}
StartUnfriend(c) ==
    \E id \in Identities, friend \in Identities :
        /\ id # friend
        /\ StartCall(c, [Idle EXCEPT !.op = "unfriend", !.user = id,
                                  !.fr = [from |-> id, to |-> friend, uuid |-> ""],
                                  !.pc = "unfriend_retain", !.pre = db])

\* the client reads the response of its request
Return(c) ==
    /\ calls[c].pc = "done"
    /\ last' = calls[c]
    /\ calls' = [calls EXCEPT ![c] = Idle]
    /\ UNCHANGED <<db, ncalls, txs, lock>>

\* add_user: db.insert(username, UserData::default())
AddUser(id) ==
    /\ db' = [db EXCEPT ![HomeNode(id)] = TreeInsert(@, PathUser(id), DefaultUserData)]
    /\ last' = [Idle EXCEPT !.op = "add_user", !.user = id, !.pc = "done",
                            !.result = "ok"]
    /\ UNCHANGED <<calls, ncalls, txs, lock>>

----------------------------------------------------------------------------
\* client_server::post_send_friend_request and its public counterpart

Other == <<last, ncalls, txs, lock>>

SendInsertFr(c) ==
    /\ calls[c].pc = "send_insert_fr"
    /\ LocalMut(c, FInsertFr(calls[c].fr), "send_push_sent")
    /\ UNCHANGED Other

SendPushSent(c) ==
    /\ calls[c].pc = "send_push_sent"
    /\ LocalMut(c, FPushSent(calls[c].fr.uuid), "send_post")
    /\ UNCHANGED Other

SendPost(c) ==
    /\ calls[c].pc = "send_post"
    /\ Post(c, calls[c].fr.to, "pub_send_insert_fr")
    /\ UNCHANGED <<db, last, ncalls, txs, lock>>

PubSendInsertFr(c) ==
    /\ calls[c].pc = "pub_send_insert_fr"
    /\ PeerMut(c, calls[c].to, FInsertFr(calls[c].fr), "pub_send_push_rec")
    /\ UNCHANGED Other

PubSendPushRec(c) ==
    /\ calls[c].pc = "pub_send_push_rec"
    /\ PeerMut(c, calls[c].to, FPushRec(calls[c].fr.uuid), "peer_done")
    /\ UNCHANGED Other

\* the handler's last lines: `.send().await?; Ok(())`
AwaitThenOk(c) ==
    \E answered \in Answers(calls[c]) :
        calls' = [calls EXCEPT ![c] =
                     IF answered
                     THEN [Finish(@, "ok") EXCEPT !.net = "answered"]
                     ELSE [Finish(@, "err") EXCEPT !.net = "lost"]]

SendResp(c) ==
    /\ calls[c].pc = "send_resp"
    /\ AwaitThenOk(c)
    /\ UNCHANGED <<db, last, ncalls, txs, lock>>

----------------------------------------------------------------------------
\* client_server::post_accept_friend_request and its public counterpart

\* state.user(&username)?.friend_requests.remove(&uuid).context(..)?.from
ReadUserFrom(c, nextpc) ==
    LET call == calls[c]
        r == StateUser(db[HomeNode(call.user)], PathUser(call.user))
    IN  calls' = [calls EXCEPT ![c] =
                     IF r.status = "ok" /\ call.uuid \in DOMAIN r.user.friend_requests
                     THEN [call EXCEPT !.pc = nextpc,
                                       !.user_from = r.user.friend_requests[call.uuid].from]
                     ELSE Finish(call, "err")]

\* state.user(&username)?.rec_friend_requests.iter().position(..).with_context(..)?
ReadPos(c, nextpc) ==
    LET call == calls[c]
        r == StateUser(db[HomeNode(call.user)], PathUser(call.user))
        pos == Position(r.user.rec_friend_requests, call.uuid)
    IN  calls' = [calls EXCEPT ![c] =
                     IF r.status = "ok" /\ pos # 0
                     THEN [call EXCEPT !.pc = nextpc, !.pos = pos]
                     ELSE Finish(call, "err")]

AcceptRead(c) ==
    /\ calls[c].pc = "accept_read"
    /\ ReadUserFrom(c, "accept_remove_fr")
    /\ UNCHANGED <<db, last, ncalls, txs, lock>>

AcceptRemoveFr(c) ==
    /\ calls[c].pc = "accept_remove_fr"
    /\ LocalMut(c, FRemoveFrUnwrap(calls[c].uuid), "accept_pos")
    /\ UNCHANGED Other

AcceptPos(c) ==
    /\ calls[c].pc = "accept_pos"
    /\ ReadPos(c, "accept_remove_rec")
    /\ UNCHANGED <<db, last, ncalls, txs, lock>>

AcceptRemoveRec(c) ==
    /\ calls[c].pc = "accept_remove_rec"
    /\ LocalMut(c, FRemoveRecAt(calls[c].pos), "accept_post")
    /\ UNCHANGED Other

AcceptPost(c) ==
    /\ calls[c].pc = "accept_post"
    /\ Post(c, calls[c].user_from, "pub_accept_retain")
    /\ UNCHANGED <<db, last, ncalls, txs, lock>>

PubAcceptRetain(c) ==
    /\ calls[c].pc = "pub_accept_retain"
    /\ PeerMut(c, calls[c].to, FRetainSent(calls[c].uuid), "pub_accept_read")
    /\ UNCHANGED Other

\* state.user(&username)?.friend_requests.remove(&uuid).with_context(..)?
PubAcceptRead(c) ==
    /\ calls[c].pc = "pub_accept_read"
    /\ LET call == calls[c]
           r == StateUser(db[HomeNode(call.to)], PathUser(call.to))
       IN  calls' = [calls EXCEPT ![c] =
                        IF r.status = "ok" /\ call.uuid \in DOMAIN r.user.friend_requests
                        THEN [call EXCEPT !.pc = "pub_accept_remove_fr",
                                          !.friend_request = r.user.friend_requests[call.uuid]]
                        ELSE [call EXCEPT !.pc = ResumePc(call.op), !.peer = "500"]]
    /\ UNCHANGED <<db, last, ncalls, txs, lock>>

PubAcceptRemoveFr(c) ==
    /\ calls[c].pc = "pub_accept_remove_fr"
    /\ PeerMut(c, calls[c].to, FRemoveFrUnwrap(calls[c].uuid), "pub_accept_push")
    /\ UNCHANGED Other

\* a slip: the requester's node pushes the requester itself
PubAcceptNewFriendFrom(friend_request) == friend_request.from

\* user.friends.push(friend_request.to.clone())
PubAcceptNewFriend(friend_request) == friend_request.to

PubAcceptPush(c) ==
    /\ calls[c].pc = "pub_accept_push"
    /\ PeerMut(c, calls[c].to,
               FPushFriend(PubAcceptNewFriend(calls[c].friend_request)), "peer_done")
    /\ UNCHANGED Other

\* a slip: the acceptor is not pushed when it is a friend already
AcceptPushFriendIfNew(c) ==
    /\ calls[c].pc = "accept_push_friend"
    /\ \E answered \in Answers(calls[c]) :
          IF answered
          THEN LET call == [calls[c] EXCEPT !.net = "answered"]
                   n == HomeNode(call.user)
                   new == ~InSeq(Record(db, call.user).friends, call.user_from)
                   r == TryUserMut(db[n], PathUser(call.user),
                                   IF new THEN FPushFriend(call.user_from) ELSE NoFunc)
               IN  /\ db' = [db EXCEPT ![n] = r.tree]
                   /\ calls' = [calls EXCEPT ![c] = Finish(call, r.status)]
          ELSE /\ calls' = [calls EXCEPT ![c] = [Finish(@, "err") EXCEPT !.net = "lost"]]
               /\ db' = db
    /\ UNCHANGED Other

\* `.send().await?` and then user_mut(username, |user| user.friends.push(user_from))
AcceptPushFriend(c) ==
    /\ calls[c].pc = "accept_push_friend"
    /\ \E answered \in Answers(calls[c]) :
          IF answered
          THEN LET call == [calls[c] EXCEPT !.net = "answered"]
                   n == HomeNode(call.user)
                   r == TryUserMut(db[n], PathUser(call.user), FPushFriend(call.user_from))
               IN  /\ db' = [db EXCEPT ![n] = r.tree]
                   /\ calls' = [calls EXCEPT ![c] = Finish(call, r.status)]
          ELSE /\ calls' = [calls EXCEPT ![c] = [Finish(@, "err") EXCEPT !.net = "lost"]]
               /\ db' = db
    /\ UNCHANGED Other

----------------------------------------------------------------------------
\* client_server::post_deny_friend_request and its public counterpart

DenyRead(c) ==
    /\ calls[c].pc = "deny_read"
    /\ ReadUserFrom(c, "deny_remove_fr")
    /\ UNCHANGED <<db, last, ncalls, txs, lock>>

DenyRemoveFr(c) ==
    /\ calls[c].pc = "deny_remove_fr"
    /\ LocalMut(c, FRemoveFrUnwrap(calls[c].uuid), "deny_pos")
    /\ UNCHANGED Other

DenyPos(c) ==
    /\ calls[c].pc = "deny_pos"
    /\ ReadPos(c, "deny_remove_rec")
    /\ UNCHANGED <<db, last, ncalls, txs, lock>>

DenyRemoveRec(c) ==
    /\ calls[c].pc = "deny_remove_rec"
    /\ LocalMut(c, FRemoveRecAt(calls[c].pos), "deny_post")
    /\ UNCHANGED Other

DenyPost(c) ==
    /\ calls[c].pc = "deny_post"
    /\ Post(c, calls[c].user_from, "pub_deny_retain")
    /\ UNCHANGED <<db, last, ncalls, txs, lock>>

PubDenyRetain(c) ==
    /\ calls[c].pc = "pub_deny_retain"
    /\ PeerMut(c, calls[c].to, FRetainSent(calls[c].uuid), "pub_deny_remove_fr")
    /\ UNCHANGED Other

\* a slip: the public deny handler ends as the public accept handler does
PubDenyBefriends(c) ==
    /\ calls[c].pc = "pub_deny_remove_fr"
    /\ PeerMut(c, calls[c].to, FPushFriend(calls[c].user), "peer_done")
    /\ UNCHANGED Other

PubDenyRemoveFr(c) ==
    /\ calls[c].pc = "pub_deny_remove_fr"
    /\ PeerMut(c, calls[c].to, FRemoveFrContext(calls[c].uuid), "peer_done")
    /\ UNCHANGED Other

DenyResp(c) ==
    /\ calls[c].pc = "deny_resp"
    /\ AwaitThenOk(c)
    /\ UNCHANGED <<db, last, ncalls, txs, lock>>

----------------------------------------------------------------------------
\* client_server::post_unfriend and its friend-tier counterpart

UnfriendRetain(c) ==
    /\ calls[c].pc = "unfriend_retain"
    /\ LocalMut(c, FRetainFriends(calls[c].fr.to), "unfriend_post")
    /\ UNCHANGED Other

UnfriendPost(c) ==
    /\ calls[c].pc = "unfriend_post"
    /\ Post(c, calls[c].fr.to, "pub_unfriend_retain")
    /\ UNCHANGED <<db, last, ncalls, txs, lock>>

\* a slip: the friend-tier handler drops the notice's target
PubUnfriendDropsTo(unfriend_request) == unfriend_request.to

\* user.friends.retain(|f| f.clone() != unfriend_request.from)
PubUnfriendDrops(unfriend_request) == unfriend_request.from

PubUnfriendRetain(c) ==
    /\ calls[c].pc = "pub_unfriend_retain"
    /\ PeerMut(c, calls[c].to, FRetainFriends(PubUnfriendDrops(calls[c].fr)), "peer_done")
    /\ UNCHANGED Other

UnfriendResp(c) ==
    /\ calls[c].pc = "unfriend_resp"
    /\ AwaitThenOk(c)
    /\ UNCHANGED <<db, last, ncalls, txs, lock>>

----------------------------------------------------------------------------
\* The specifications

NoRead == [some |-> FALSE, user |-> DefaultUserData]

NoTx ==
    [key |-> "", funcs |-> <<>>, i |-> 1, pc |-> "idle", data |-> NoRead,
     r |-> Ok(DefaultUserData), view |-> EmptyTree, pre |-> EmptyTree,
     result |-> "none", err |-> ""]

TxIds == 1..MaxTx

Init ==
    /\ db = EmptyDb
    /\ calls = [c \in Clients |-> Idle]
    /\ last = Idle
    /\ ncalls = 0
    /\ txs = [t \in TxIds |-> NoTx]
    /\ lock = 0

Start(c) ==
    \/ StartSend(c)
    \/ StartAccept(c)
    \/ StartDeny(c)
    \/ StartUnfriend(c)

Handler(c) ==
    \/ SendInsertFr(c) \/ SendPushSent(c) \/ SendPost(c)
    \/ PubSendInsertFr(c) \/ PubSendPushRec(c) \/ SendResp(c)
    \/ AcceptRead(c) \/ AcceptRemoveFr(c) \/ AcceptPos(c) \/ AcceptRemoveRec(c)
    \/ AcceptPost(c) \/ PubAcceptRetain(c) \/ PubAcceptRead(c)
    \/ PubAcceptRemoveFr(c) \/ PubAcceptPush(c) \/ AcceptPushFriend(c)
    \/ DenyRead(c) \/ DenyRemoveFr(c) \/ DenyPos(c) \/ DenyRemoveRec(c)
    \/ DenyPost(c) \/ PubDenyRetain(c) \/ PubDenyRemoveFr(c) \/ DenyResp(c)
    \/ UnfriendRetain(c) \/ UnfriendPost(c) \/ PubUnfriendRetain(c)
    \/ UnfriendResp(c)

\* requests of all clients run concurrently
Next ==
    \/ \E c \in Clients : Start(c) \/ Handler(c) \/ Return(c)
    \/ \E id \in Identities : AddUser(id)

Spec == Init /\ [][Next]_vars

\* one client that awaits each request before it issues the next, as
\* actual_test does
AllIdle == \A c \in Clients : calls[c] = Idle

SeqNext ==
    \/ AllIdle /\ Start("c1")
    \/ Handler("c1")
    \/ Return("c1")
    \/ AllIdle /\ \E id \in Identities : AddUser(id)

SeqSpec == Init /\ [][SeqNext]_vars

----------------------------------------------------------------------------
\* Two acting users of one node sending at the same time

\* a second user hosted on malek's node
Robin == [username |-> "robin", website |-> "localhost:8000"]

\* the user each client acts for
IsoUser(c) == IF c = "c1" THEN Malek ELSE Robin

\* add_user for malek, robin and lyuma has run
IsoInit ==
    /\ db = [n \in Nodes |->
                IF n = "localhost:8000"
                THEN TreeInsert(TreeInsert(EmptyTree, PathUser(Malek), DefaultUserData),
                                PathUser(Robin), DefaultUserData)
                ELSE TreeInsert(EmptyTree, PathUser(Lyuma), DefaultUserData)]
    /\ calls = [c \in Clients |-> Idle]
    /\ last = Idle
    /\ ncalls = 0
    /\ txs = [t \in TxIds |-> NoTx]
    /\ lock = 0

\* client::send_friend_request on behalf of the client's user, to lyuma; each
\* of the two users sends one request
IsoStartSend(c) ==
    \E uuid \in Uuids :
        /\ Record(db, IsoUser(c)).friend_requests = EmptyMap
        /\ StartCall(c, [Idle EXCEPT !.op = "send", !.user = IsoUser(c),
                                     !.fr = [from |-> IsoUser(c), to |-> Lyuma, uuid |-> uuid],
                                     !.pc = "send_insert_fr",
                                     !.fresh = Fresh(db, uuid), !.pre = db])

IsoNext ==
    \E c \in Clients :
        \/ IsoStartSend(c)
        \/ SendInsertFr(c) \/ SendPushSent(c) \/ SendPost(c)
        \/ PubSendInsertFr(c) \/ PubSendPushRec(c) \/ SendResp(c)
        \/ Return(c)

IsoSpec == IsoInit /\ [][IsoNext]_vars

----------------------------------------------------------------------------
\* Two requests served at the same time by the main.rs servers, each client
\* issuing one request and keeping its response

\* malek's pending request uuid to lyuma
ConcRequest(uuid) == [from |-> Malek, to |-> Lyuma, uuid |-> uuid]

RECURSIVE ConcMap(_)
ConcMap(ids) ==
    IF ids = <<>> THEN EmptyMap
    ELSE MapInsert(ConcMap(Tail(ids)), Head(ids), ConcRequest(Head(ids)))

\* both users registered, the requests `ids` of malek to lyuma pending, and
\* the two friends of each other or not: what add_user, send and accept
\* requests served one after the other leave behind
ConcDb(ids, befriended) ==
    [n \in Nodes |->
        IF n = HomeNode(Malek)
        THEN TreeInsert(EmptyTree, PathUser(Malek),
                 [DefaultUserData EXCEPT
                     !.friends = IF befriended THEN <<Lyuma>> ELSE <<>>,
                     !.sent_friend_requests = ids,
                     !.friend_requests = ConcMap(ids)])
        ELSE TreeInsert(EmptyTree, PathUser(Lyuma),
                 [DefaultUserData EXCEPT
                     !.friends = IF befriended THEN <<Malek>> ELSE <<>>,
                     !.rec_friend_requests = ids,
                     !.friend_requests = ConcMap(ids)])]

ConcInit ==
    /\ db \in {ConcDb(ids, befriended) :
                 ids \in {<<>>, <<"0">>, <<"0", "1">>, <<"0", "1", "2">>},
                 befriended \in BOOLEAN}
    /\ calls = [c \in Clients |-> Idle]
    /\ last = Idle
    /\ ncalls = 0
    /\ txs = [t \in TxIds |-> NoTx]
    /\ lock = 0

ConcNext == \E c \in Clients : Start(c) \/ Handler(c)

ConcSpec == ConcInit /\ [][ConcNext]_vars

----------------------------------------------------------------------------
\* Unfriend on friends lists of any content: each accepted request of a
\* user added one entry, so a friend may occur several times, between
\* entries for others

FriendsLists(others, n) == UNION {[1..k -> others] : k \in 0..n}

\* malek and lyuma registered, request "0" of malek to lyuma pending
UnfriendDb(mfriends, lfriends) ==
    [n \in Nodes |->
        IF n = HomeNode(Malek)
        THEN TreeInsert(EmptyTree, PathUser(Malek),
                 [DefaultUserData EXCEPT
                     !.friends = mfriends,
                     !.sent_friend_requests = <<"0">>,
                     !.friend_requests = ConcMap(<<"0">>)])
        ELSE TreeInsert(EmptyTree, PathUser(Lyuma),
                 [DefaultUserData EXCEPT
                     !.friends = lfriends,
                     !.rec_friend_requests = <<"0">>,
                     !.friend_requests = ConcMap(<<"0">>)])]

UnfriendInit ==
    /\ db \in {UnfriendDb(mfriends, lfriends) :
                 mfriends \in FriendsLists({Lyuma, Robin}, MaxFriends),
                 lfriends \in FriendsLists({Malek, Robin}, MaxFriends - 1)}
    /\ calls = [c \in Clients |-> Idle]
    /\ last = Idle
    /\ ncalls = 0
    /\ txs = [t \in TxIds |-> NoTx]
    /\ lock = 0

UnfriendNext ==
    \/ AllIdle /\ StartUnfriend("c1")
    \/ UnfriendRetain("c1") \/ UnfriendPost("c1") \/ PubUnfriendRetain("c1")
    \/ UnfriendResp("c1")
    \/ Return("c1")

UnfriendSpec == UnfriendInit /\ [][UnfriendNext]_vars

----------------------------------------------------------------------------
\* Accept and deny when two initiators used the same id. The store is the
\* one left by: robin sends "0" to malek; malek sends "0" to lyuma; malek
\* denies "0" (his map entry is his own request by then, so the resolution
\* goes to his own node and takes "0" out of his sent ids); robin sends "0"
\* to malek again. malek now holds "0" as a received request only, and lyuma
\* holds malek's request "0".

CollisionDb(befriended) ==
    [n \in Nodes |->
        IF n = HomeNode(Malek)
        THEN TreeInsert(
                 TreeInsert(EmptyTree, PathUser(Malek),
                     [DefaultUserData EXCEPT
                         !.friends = IF befriended THEN <<Lyuma>> ELSE <<>>,
                         !.rec_friend_requests = <<"0">>,
                         !.friend_requests =
                             MapInsert(EmptyMap, "0",
                                       [from |-> Robin, to |-> Malek, uuid |-> "0"])]),
                 PathUser(Robin),
                 [DefaultUserData EXCEPT
                     !.sent_friend_requests = <<"0", "0">>,
                     !.friend_requests =
                         MapInsert(EmptyMap, "0",
                                   [from |-> Robin, to |-> Malek, uuid |-> "0"])])
        ELSE TreeInsert(EmptyTree, PathUser(Lyuma),
                 [DefaultUserData EXCEPT
                     !.friends = IF befriended THEN <<Malek>> ELSE <<>>,
                     !.rec_friend_requests = <<"0">>,
                     !.friend_requests = ConcMap(<<"0">>)])]

CollisionInit ==
    /\ db \in {CollisionDb(befriended) : befriended \in BOOLEAN}
    /\ calls = [c \in Clients |-> Idle]
    /\ last = Idle
    /\ ncalls = 0
    /\ txs = [t \in TxIds |-> NoTx]
    /\ lock = 0

CollisionNext ==
    \/ AllIdle /\ (StartAccept("c1") \/ StartDeny("c1"))
    \/ AcceptRead("c1") \/ AcceptRemoveFr("c1") \/ AcceptPos("c1")
    \/ AcceptRemoveRec("c1") \/ AcceptPost("c1") \/ PubAcceptRetain("c1")
    \/ PubAcceptRead("c1") \/ PubAcceptRemoveFr("c1") \/ PubAcceptPush("c1")
    \/ AcceptPushFriend("c1")
    \/ DenyRead("c1") \/ DenyRemoveFr("c1") \/ DenyPos("c1") \/ DenyRemoveRec("c1")
    \/ DenyPost("c1") \/ PubDenyRetain("c1") \/ PubDenyRemoveFr("c1")
    \/ DenyResp("c1")
    \/ Return("c1")

CollisionSpec == CollisionInit /\ [][CollisionNext]_vars

----------------------------------------------------------------------------
\* Nodes that host several users: localhost:8000 holds the records of malek
\* and robin (the store of CollisionDb), and two requests are served at the
\* same time; add-user may be called for any of the three usernames while
\* no request is being served.

Hosted == {Malek, Lyuma, Robin}

FrameNext ==
    \/ \E c \in Clients : Start(c) \/ Handler(c)
    \/ AllIdle /\ \E id \in Hosted : AddUser(id)

FrameSpec == CollisionInit /\ [][FrameNext]_vars

----------------------------------------------------------------------------
\* The GET endpoints of main.rs (client_server::get_friends,
\* get_sent_friend_requests, get_rec_friend_requests, get_friend_request),
\* called by a second client while a request of the first is being served.

GetOps ==
    {"get_friends", "get_sent_friend_requests", "get_rec_friend_requests",
     "get_friend_request"}

\* client::get_friends, sent_friend_requests, rec_friend_requests,
\* get_friend_request: GET on the private tier of username
StartGet(c) ==
    \E id \in Identities, what \in GetOps, uuid \in Uuids \cup {""} :
        /\ (what = "get_friend_request") = (uuid # "")
        /\ StartCall(c, [Idle EXCEPT !.op = what, !.user = id, !.uuid = uuid,
                                     !.pc = "get_read", !.pre = db])

\* Ok(serde_json::to_string(&state.user(username)?. ..)?): one plain read of
\* the record; get_friend_request fails when the map has no such key and
\* answers with the stored request otherwise
GetRead(c) ==
    /\ calls[c].pc = "get_read"
    /\ LET call == calls[c]
           r == StateUser(db[HomeNode(call.user)], PathUser(call.user))
       IN  calls' = [calls EXCEPT ![c] =
                        IF r.status # "ok"
                        THEN Finish(call, "err")
                        ELSE IF call.op # "get_friend_request"
                        THEN Finish(call, "ok")
                        ELSE IF call.uuid \in DOMAIN r.user.friend_requests
                        THEN Finish([call EXCEPT !.friend_request =
                                         r.user.friend_requests[call.uuid]], "ok")
                        ELSE Finish(call, "err")]
    /\ UNCHANGED <<db, last, ncalls, txs, lock>>

ReadNext ==
    \/ Start("c1") \/ Handler("c1")
    \/ StartGet("c2") \/ GetRead("c2")

ReadSpec == ConcInit /\ [][ReadNext]_vars

----------------------------------------------------------------------------
\* Transactions step by step: concurrent State::try_user_mut (main.rs) and
\* Users::transaction (users.rs) calls on one node's tree

TxNode == "localhost:8000"

\* the tree the calls start from: malek holds request "0" received from
\* lyuma and request "1" sent to lyuma; lyuma has no record on this node
TxReceived == [from |-> Lyuma, to |-> Malek, uuid |-> "0"]

TxSent == [from |-> Malek, to |-> Lyuma, uuid |-> "1"]

TxTree0 ==
    TreeInsert(EmptyTree, "malek",
               [DefaultUserData EXCEPT
                    !.friend_requests =
                        MapInsert(MapInsert(EmptyMap, "0", TxReceived), "1", TxSent),
                    !.rec_friend_requests = <<"0">>,
                    !.sent_friend_requests = <<"1">>])

TxKeys == {"malek", "lyuma"}

\* users.rs post_deny_friend_request: the closure of its transaction
TxDeny(uuid) == <<FRemoveFrContext(uuid), FRemoveRecOf(uuid)>>

\* users.rs post_accept_friend_request: the closure of its transaction
TxAccept(uuid, from) ==
    <<FRemoveFrContext(uuid), FRemoveRecOf(uuid), FPushFriend(from)>>

\* the closures the calls run: single mutators of main.rs, the transactions
\* of users.rs, and a mutator that fails after it wrote to its copy
TxBodies ==
    {<<FPushFriend(Lyuma)>>, <<FRemoveFrUnwrap("0")>>, <<FPushThenFail(Lyuma)>>,
     TxDeny("0"), TxDeny("1"), TxAccept("0", Lyuma), TxAccept("1", Malek)}

\* a slip: get and insert outside of a transaction
TxMayBeginAlways(holder) == TRUE

\* db.transaction(|db| ..): sled runs the closure of one transaction at a
\* time
TxMayBegin(holder) == holder = 0

TxBegin(t) ==
    /\ txs[t].pc = "begin"
    /\ TxMayBegin(lock)
    /\ lock' = t
    /\ txs' = [txs EXCEPT ![t].pc = "get", ![t].pre = db[TxNode],
                          ![t].view = db[TxNode]]
    /\ UNCHANGED <<db, calls, last, ncalls>>

\* let data = db.get(key)?: the tree as this transaction has written it
TxGet(t) ==
    /\ txs[t].pc = "get"
    /\ txs' = [txs EXCEPT ![t].pc = "apply",
                          ![t].data = TreeGet(txs[t].view, txs[t].key)]
    /\ UNCHANGED <<db, calls, last, ncalls, lock>>

\* let new_data = Self::user_mut_inner(data, &func).map_err(Abort)?
TxApply(t) ==
    /\ txs[t].pc = "apply"
    /\ LET r == UserMutInner(txs[t].data, txs[t].funcs[txs[t].i])
           failed == [txs[t] EXCEPT !.r = r,
                         !.result = IF r.status # "ok" /\ @ = "none" THEN r.status ELSE @,
                         !.err = IF r.status # "ok" /\ @ = "" THEN r.err ELSE @]
       IN  /\ txs' = [txs EXCEPT ![t] =
                         IF Aborts(r)
                         THEN [failed EXCEPT !.pc = "done"]
                         ELSE [failed EXCEPT !.pc = "insert"]]
           /\ lock' = IF Aborts(r) THEN 0 ELSE lock
    /\ UNCHANGED <<db, calls, last, ncalls>>

\* a slip: the write goes to the tree at once, as an insert outside of a
\* transaction does
TxInsertWritesThrough(t) ==
    /\ txs[t].pc = "insert"
    /\ txs' = [txs EXCEPT ![t].view = TreeInsert(@, txs[t].key, txs[t].r.user),
                          ![t].i = @ + 1,
                          ![t].pc = IF txs[t].i < Len(txs[t].funcs)
                                    THEN "get" ELSE "commit"]
    /\ db' = [db EXCEPT ![TxNode] = TreeInsert(@, txs[t].key, txs[t].r.user)]
    /\ UNCHANGED <<calls, last, ncalls, lock>>

\* db.insert(key, new_data)?: a write of the transaction, kept in its view
TxInsert(t) ==
    /\ txs[t].pc = "insert"
    /\ txs' = [txs EXCEPT ![t].view = TreeInsert(@, txs[t].key, txs[t].r.user),
                          ![t].i = @ + 1,
                          ![t].pc = IF txs[t].i < Len(txs[t].funcs)
                                    THEN "get" ELSE "commit"]
    /\ UNCHANGED <<db, calls, last, ncalls, lock>>

\* the closure returned Ok(..): the writes reach the tree together
TxCommit(t) ==
    /\ txs[t].pc = "commit"
    /\ db' = [db EXCEPT ![TxNode] = txs[t].view]
    /\ txs' = [txs EXCEPT ![t].pc = "done",
                          ![t].result = IF @ = "none" THEN "ok" ELSE @]
    /\ lock' = 0
    /\ UNCHANGED <<calls, last, ncalls>>

TxInit ==
    /\ db = [EmptyDb EXCEPT ![TxNode] = TxTree0]
    /\ calls = [c \in Clients |-> Idle]
    /\ last = Idle
    /\ ncalls = 0
    /\ txs \in [TxIds -> {[NoTx EXCEPT !.key = k, !.funcs = b, !.pc = "begin"] :
                             k \in TxKeys, b \in TxBodies}]
    /\ lock = 0

TxNext ==
    \E t \in TxIds :
        TxBegin(t) \/ TxGet(t) \/ TxApply(t) \/ TxInsert(t) \/ TxCommit(t)

TxSpec == TxInit /\ [][TxNext]_vars

----------------------------------------------------------------------------
\* Handlers with their transactions opened and closed in separate steps:
\* post_send_friend_request of main.rs and post_accept_friend_request of
\* users.rs, served concurrently for malek on localhost:8000. `lock` is the
\* holder of that node's transaction guard; `last.op` names the revision
\* the nodes run.

ClientId(c) == IF c = "c1" THEN 1 ELSE 2

\* lyuma has sent requests "0" and "1" to malek
FlightRequest(uuid) == [from |-> Lyuma, to |-> Malek, uuid |-> uuid]

FlightRequests ==
    MapInsert(MapInsert(EmptyMap, "0", FlightRequest("0")), "1", FlightRequest("1"))

FlightDb ==
    [n \in Nodes |->
        IF n = HomeNode(Malek)
        THEN TreeInsert(EmptyTree, PathUser(Malek),
                        [DefaultUserData EXCEPT !.friend_requests = FlightRequests,
                                                !.rec_friend_requests = <<"0", "1">>])
        ELSE TreeInsert(EmptyTree, PathUser(Lyuma),
                        [DefaultUserData EXCEPT !.friend_requests = FlightRequests,
                                                !.sent_friend_requests = <<"0", "1">>])]

FlightInit ==
    /\ db = FlightDb
    /\ calls = [c \in Clients |-> Idle]
    /\ last \in {[Idle EXCEPT !.op = rev] : rev \in {"main.rs", "users.rs"}}
    /\ ncalls = 0
    /\ txs = [t \in TxIds |-> NoTx]
    /\ lock = 0

\* malek's client sends a request to lyuma (main.rs) or accepts one of
\* lyuma's (users.rs)
FlightStart(c) ==
    \E uuid \in Uuids :
        \/ /\ last.op = "main.rs"
           /\ StartCall(c, [Idle EXCEPT !.op = "send", !.user = Malek,
                                        !.fr = [from |-> Malek, to |-> Lyuma, uuid |-> uuid],
                                        !.pc = "f_send_begin_1"])
        \/ /\ last.op = "users.rs"
           /\ StartCall(c, [Idle EXCEPT !.op = "u_accept", !.user = Malek,
                                        !.uuid = uuid, !.pc = "u_accept_begin"])

\* the closure of the transaction to run once the guard is held
BodyPc(pc) ==
    CASE pc = "f_send_begin_1" -> "f_send_insert_fr"
      [] pc = "f_send_begin_2" -> "f_send_push_sent"
      [] pc = "u_accept_begin" -> "u_accept_body"

\* db.transaction(|db| ..) / tree.transaction(|tree| ..) enters its closure
FlightBegin(c) ==
    /\ calls[c].pc \in {"f_send_begin_1", "f_send_begin_2", "u_accept_begin"}
    /\ TxMayBegin(lock)
    /\ lock' = ClientId(c)
    /\ calls' = [calls EXCEPT ![c].pc = BodyPc(@)]
    /\ UNCHANGED <<db, last, ncalls, txs>>

\* a slip: the guard is kept while the handler goes on
TxEndKeeps(holder) == holder

\* the closure returned and the transaction committed or aborted: the guard
\* is free again
TxEnd(holder) == 0

FlightSendInsertFr(c) ==
    /\ calls[c].pc = "f_send_insert_fr"
    /\ LocalMut(c, FInsertFr(calls[c].fr), "f_send_begin_2")
    /\ lock' = TxEnd(lock)
    /\ UNCHANGED <<last, ncalls, txs>>

FlightSendPushSent(c) ==
    /\ calls[c].pc = "f_send_push_sent"
    /\ LocalMut(c, FPushSent(calls[c].fr.uuid), "send_post")
    /\ lock' = TxEnd(lock)
    /\ UNCHANGED <<last, ncalls, txs>>

\* users.rs post_accept_friend_request, the closure of its transaction on
\* the record under `key`: get_user and the lookup of the request, then the
\* three mutators; user_from is what the closure returns
UsersAccept(tree, key, uuid) ==
    LET read == StateUser(tree, key)
    IN  IF read.status # "ok"
        THEN [status |-> "err", tree |-> tree, user_from |-> NoIdentity]
        ELSE IF uuid \notin DOMAIN read.user.friend_requests
        THEN [status |-> "err", tree |-> tree, user_from |-> NoIdentity]
        ELSE LET from == read.user.friend_requests[uuid].from
                 r == Transaction(tree, key, TxAccept(uuid, from))
             IN  [status |-> r.status, tree |-> r.tree, user_from |-> from]

FlightAcceptBody(c) ==
    /\ calls[c].pc = "u_accept_body"
    /\ LET call == calls[c]
           n == HomeNode(call.user)
           r == UsersAccept(db[n], PathUser(call.user), call.uuid)
       IN  /\ db' = [db EXCEPT ![n] = r.tree]
           /\ calls' = [calls EXCEPT ![c] =
                           IF r.status = "ok"
                           THEN [call EXCEPT !.pc = "u_accept_post",
                                             !.user_from = r.user_from]
                           ELSE Finish(call, r.status)]
    /\ lock' = TxEnd(lock)
    /\ UNCHANGED <<last, ncalls, txs>>

FlightAcceptPost(c) ==
    /\ calls[c].pc = "u_accept_post"
    /\ Post(c, calls[c].user_from, "u_pub_accept")
    /\ UNCHANGED <<db, last, ncalls, txs, lock>>

\* the peer serves the public accept route with the same handler (users.rs
\* 165-168): its transaction on the addressed record. When it aborts the peer
\* answers 500; when it commits the peer goes on to an outbound call of its
\* own, which is not followed here
FlightPubAccept(c) ==
    /\ calls[c].pc = "u_pub_accept"
    /\ LET call == calls[c]
           n == HomeNode(call.to)
           r == UsersAccept(db[n], PathUser(call.to), call.uuid)
       IN  /\ db' = [db EXCEPT ![n] = r.tree]
           /\ calls' = [calls EXCEPT ![c] =
                           IF r.status = "ok"
                           THEN [call EXCEPT !.pc = "u_pub_accept_onward"]
                           ELSE [call EXCEPT !.pc = "u_accept_resp",
                                             !.peer = PeerStatus(r.status)]]
    /\ UNCHANGED <<last, ncalls, txs, lock>>

FlightAcceptResp(c) ==
    /\ calls[c].pc = "u_accept_resp"
    /\ AwaitThenOk(c)
    /\ UNCHANGED <<db, last, ncalls, txs, lock>>

\* the client reads the response
FlightReturn(c) ==
    /\ calls[c].pc = "done"
    /\ calls' = [calls EXCEPT ![c] = Idle]
    /\ UNCHANGED <<db, last, ncalls, txs, lock>>

FlightNext ==
    \E c \in Clients :
        \/ FlightStart(c) \/ FlightBegin(c) \/ FlightReturn(c)
        \/ FlightSendInsertFr(c) \/ FlightSendPushSent(c) \/ SendPost(c)
        \/ PubSendInsertFr(c) \/ PubSendPushRec(c) \/ SendResp(c)
        \/ FlightAcceptBody(c) \/ FlightAcceptPost(c) \/ FlightPubAccept(c)
        \/ FlightAcceptResp(c)

FlightSpec == FlightInit /\ [][FlightNext]_vars

----------------------------------------------------------------------------
\* The handlers of users.rs. Users::route serves the public and friend
\* routes with the handlers of the private routes, so the handler a POST
\* reaches on the peer runs like the one that sent it, on the record of the
\* addressed user. call.stack holds the users whose handlers are running on
\* behalf of the request, the client's one first; the last one is at work
\* and the others await the answer to their POST.

\* users.rs post_deny_friend_request, the closure of its transaction
UsersDeny(tree, key, uuid) ==
    LET read == StateUser(tree, key)
    IN  IF read.status # "ok"
        THEN [status |-> "err", tree |-> tree, user_from |-> NoIdentity]
        ELSE IF uuid \notin DOMAIN read.user.friend_requests
        THEN [status |-> "err", tree |-> tree, user_from |-> NoIdentity]
        ELSE LET from == read.user.friend_requests[uuid].from
                 r == Transaction(tree, key, TxDeny(uuid))
             IN  [status |-> r.status, tree |-> r.tree, user_from |-> from]

\* users.rs post_send_friend_request, the closure of its transaction
TxSend(fr) == <<FInsertFr(fr), FPushSent(fr.uuid)>>

\* users.rs post_unfriend, the closure of its transaction
TxUnfriend(unfriend_request) == <<FRetainFriends(unfriend_request.to)>>

\* the user whose node the handler posts to
UsersTarget(call) ==
    IF call.op \in {"u_send", "u_unfriend"} THEN call.fr.to ELSE call.user_from

\* post_send_friend_request posts first; the others begin with their
\* transaction
UsersFirstPc(op) == IF op = "u_send" THEN "u_post" ELSE "u_tx"

UsersStart(c) ==
    \/ \E fr \in FriendRequests :
          StartCall(c, [Idle EXCEPT !.op = "u_send", !.user = fr.from, !.fr = fr,
                                    !.stack = <<fr.from>>, !.pc = UsersFirstPc("u_send"),
                                    !.pre = db])
    \/ \E id \in Identities, uuid \in Uuids, op \in {"u_accept", "u_deny"} :
          StartCall(c, [Idle EXCEPT !.op = op, !.user = id, !.uuid = uuid,
                                    !.stack = <<id>>, !.pc = UsersFirstPc(op),
                                    !.pre = db])
    \/ \E fr \in FriendRequests :
          StartCall(c, [Idle EXCEPT !.op = "u_unfriend", !.user = fr.from,
                                    !.fr = [fr EXCEPT !.uuid = ""],
                                    !.stack = <<fr.from>>,
                                    !.pc = UsersFirstPc("u_unfriend"), !.pre = db])

\* users.transaction(|users| ..) of the handler at work
UsersTx(c) ==
    /\ calls[c].pc = "u_tx"
    /\ LET call == calls[c]
           top == call.stack[Len(call.stack)]
           n == HomeNode(top)
           key == PathUser(top)
           plain(r) == [status |-> r.status, tree |-> r.tree, user_from |-> call.user_from]
           out == CASE call.op = "u_send" -> plain(Transaction(db[n], key, TxSend(call.fr)))
                    [] call.op = "u_accept" -> UsersAccept(db[n], key, call.uuid)
                    [] call.op = "u_deny" -> UsersDeny(db[n], key, call.uuid)
                    [] call.op = "u_unfriend" ->
                         plain(Transaction(db[n], key, TxUnfriend(call.fr)))
       IN  /\ db' = [db EXCEPT ![n] = out.tree]
           /\ calls' = [calls EXCEPT ![c] =
                           IF out.status = "ok" /\ call.op # "u_send"
                           THEN [call EXCEPT !.pc = "u_post", !.user_from = out.user_from]
                           ELSE [call EXCEPT !.pc = "u_return",
                                             !.peer = PeerStatus(out.status)]]
    /\ UNCHANGED Other

\* users.reqwest_client.post(..).send(): the addressed node starts its
\* handler, or the transport fails and the handler at work returns the error
UsersPost(c) ==
    /\ calls[c].pc = "u_post"
    /\ \E connected \in IF calls[c].posts < MaxHops THEN BOOLEAN ELSE {FALSE} :
          calls' = [calls EXCEPT ![c] =
                       IF connected
                       THEN [@ EXCEPT !.stack = Append(@, UsersTarget(calls[c])),
                                      !.to = UsersTarget(calls[c]),
                                      !.posts = @ + 1, !.net = "delivered",
                                      !.pc = UsersFirstPc(calls[c].op)]
                       ELSE [@ EXCEPT !.pc = "u_return", !.peer = "500",
                                      !.net = "refused"]]
    /\ UNCHANGED <<db, last, ncalls, txs, lock>>

\* the handler at work returns with status call.peer: to the client, or to
\* the handler that awaits it, which goes on (`.send().await?` is Ok for
\* every status) unless the answer is lost
UsersReturn(c) ==
    /\ calls[c].pc = "u_return"
    /\ LET call == calls[c]
           below == [call EXCEPT !.stack = SubSeq(@, 1, Len(@) - 1)]
       IN  IF Len(call.stack) = 1
           THEN calls' = [calls EXCEPT ![c] =
                             Finish(below, IF call.peer = "200" THEN "ok" ELSE "err")]
           ELSE \E answered \in BOOLEAN :
                   calls' = [calls EXCEPT ![c] =
                       IF ~answered
                       THEN [below EXCEPT !.peer = "500", !.net = "lost"]
                       ELSE IF call.op = "u_send"
                       THEN [below EXCEPT !.pc = "u_tx", !.net = "answered"]
                       ELSE [below EXCEPT !.peer = "200", !.net = "answered"]]
    /\ UNCHANGED <<db, last, ncalls, txs, lock>>

UsersHandler(c) == UsersTx(c) \/ UsersPost(c) \/ UsersReturn(c)

\* two requests served at the same time by nodes that run users.rs
UsersNext == \E c \in Clients : UsersStart(c) \/ UsersHandler(c)

UsersSpec == ConcInit /\ [][UsersNext]_vars

----------------------------------------------------------------------------
\* Accept and deny calls of the receiver for one pending request, concurrent
\* and repeated, on nodes that run main.rs or users.rs. `last.op` names the
\* revision, `last.pre` keeps the store the calls start from and `last.posts`
\* counts the POSTs of the calls that have returned.

ResolveInit ==
    /\ db \in {ConcDb(<<"0">>, befriended) : befriended \in BOOLEAN}
    /\ calls = [c \in Clients |-> Idle]
    /\ last \in {[Idle EXCEPT !.op = rev, !.pre = db] : rev \in {"main.rs", "users.rs"}}
    /\ ncalls = 0
    /\ txs = [t \in TxIds |-> NoTx]
    /\ lock = 0

\* client::accept_friend_request / client::deny_friend_request of lyuma for "0"
ResolveStart(c) ==
    \/ /\ last.op = "main.rs"
       /\ \E op \in {"accept", "deny"} :
             StartCall(c, [Idle EXCEPT !.op = op, !.user = Lyuma, !.uuid = "0",
                                       !.pc = IF op = "accept" THEN "accept_read"
                                              ELSE "deny_read",
                                       !.pre = db])
    \/ /\ last.op = "users.rs"
       /\ \E op \in {"u_accept", "u_deny"} :
             StartCall(c, [Idle EXCEPT !.op = op, !.user = Lyuma, !.uuid = "0",
                                       !.stack = <<Lyuma>>, !.pc = UsersFirstPc(op),
                                       !.pre = db])

ResolveReturn(c) ==
    /\ calls[c].pc = "done"
    /\ last' = [last EXCEPT !.posts = @ + calls[c].posts]
    /\ calls' = [calls EXCEPT ![c] = Idle]
    /\ UNCHANGED <<db, ncalls, txs, lock>>

ResolveNext ==
    \E c \in Clients :
        \/ ResolveStart(c)
        \/ AcceptRead(c) \/ AcceptRemoveFr(c) \/ AcceptPos(c) \/ AcceptRemoveRec(c)
        \/ AcceptPost(c) \/ PubAcceptRetain(c) \/ PubAcceptRead(c)
        \/ PubAcceptRemoveFr(c) \/ PubAcceptPush(c) \/ AcceptPushFriend(c)
        \/ DenyRead(c) \/ DenyRemoveFr(c) \/ DenyPos(c) \/ DenyRemoveRec(c)
        \/ DenyPost(c) \/ PubDenyRetain(c) \/ PubDenyRemoveFr(c) \/ DenyResp(c)
        \/ UsersHandler(c)
        \/ ResolveReturn(c)

ResolveSpec == ResolveInit /\ [][ResolveNext]_vars

----------------------------------------------------------------------------
\* Invites: client::send_invite and client::remove_invite, with handlers
\* that follow the design document (one local transaction, then for a send
\* one POST to the friend tier of the invited user's node; removal is local,
\* the client calls it on both nodes)

\* client::send_invite: POST to invite.from's private tier
StartSendInvite(c) ==
    \E inv \in FriendRequests :
        StartCall(c, [Idle EXCEPT !.op = "send_invite", !.user = inv.from,
                                  !.fr = inv, !.uuid = inv.uuid,
                                  !.pc = "invite_send_local", !.pre = db])

\* client::remove_invite
StartRemoveInvite(c) ==
    \E id \in Identities, uuid \in Uuids :
        StartCall(c, [Idle EXCEPT !.op = "remove_invite", !.user = id,
                                  !.uuid = uuid,
                                  !.pc = "invite_remove_local", !.pre = db])

InviteSendLocal(c) ==
    /\ calls[c].pc = "invite_send_local"
    /\ LocalMut(c, FInviteSend(calls[c].fr), "invite_send_post")
    /\ UNCHANGED Other

InviteSendPost(c) ==
    /\ calls[c].pc = "invite_send_post"
    /\ Post(c, calls[c].fr.to, "friend_send_invite")
    /\ UNCHANGED <<db, last, ncalls, txs, lock>>

\* the friend tier of the invited user's node: the receiver-side half
FriendSendInvite(c) ==
    /\ calls[c].pc = "friend_send_invite"
    /\ LET call == calls[c]
           n == HomeNode(call.to)
           r == TryUserMut(db[n], PathUser(call.to), FInviteReceive(call.fr))
       IN  /\ db' = [db EXCEPT ![n] = r.tree]
           /\ calls' = [calls EXCEPT ![c] =
                           [call EXCEPT !.pc = "invite_send_resp",
                                        !.peer = PeerStatus(r.status)]]
    /\ UNCHANGED Other

\* the push fails on a transport error and on an answer other than 2xx
InviteSendResp(c) ==
    /\ calls[c].pc = "invite_send_resp"
    /\ \E answered \in Answers(calls[c]) :
          calls' = [calls EXCEPT ![c] =
                       IF ~answered
                       THEN [Finish(@, "err") EXCEPT !.net = "lost"]
                       ELSE IF calls[c].peer = "200"
                       THEN [Finish(@, "ok") EXCEPT !.net = "answered"]
                       ELSE [Finish(@, "err") EXCEPT !.net = "answered"]]
    /\ UNCHANGED <<db, last, ncalls, txs, lock>>

InviteRemoveLocal(c) ==
    /\ calls[c].pc = "invite_remove_local"
    /\ LET call == calls[c]
           n == HomeNode(call.user)
           r == TryUserMut(db[n], PathUser(call.user), FInviteRemove(call.uuid))
       IN  /\ db' = [db EXCEPT ![n] = r.tree]
           /\ calls' = [calls EXCEPT ![c] = Finish(call, r.status)]
    /\ UNCHANGED Other

\* malek and lyuma are registered, malek's request "0" to lyuma is pending,
\* and they are friends of each other or not
InviteRecord(friend, pending, befriended) ==
    [DefaultUserData EXCEPT
        !.friends = IF befriended THEN <<friend>> ELSE <<>>,
        !.friend_requests =
            MapInsert(EmptyMap, "0", [from |-> Malek, to |-> Lyuma, uuid |-> "0"]),
        !.sent_friend_requests = IF pending = "sent" THEN <<"0">> ELSE <<>>,
        !.rec_friend_requests = IF pending = "rec" THEN <<"0">> ELSE <<>>]

InviteDb(befriended) ==
    [n \in Nodes |->
        IF n = HomeNode(Malek)
        THEN TreeInsert(EmptyTree, PathUser(Malek), InviteRecord(Lyuma, "sent", befriended))
        ELSE TreeInsert(EmptyTree, PathUser(Lyuma), InviteRecord(Malek, "rec", befriended))]

InviteInit ==
    /\ db \in {InviteDb(befriended) : befriended \in BOOLEAN}
    /\ calls = [c \in Clients |-> Idle]
    /\ last = Idle
    /\ ncalls = 0
    /\ txs = [t \in TxIds |-> NoTx]
    /\ lock = 0

InviteNext ==
    \/ AllIdle /\ (StartSendInvite("c1") \/ StartRemoveInvite("c1"))
    \/ InviteSendLocal("c1") \/ InviteSendPost("c1") \/ FriendSendInvite("c1")
    \/ InviteSendResp("c1") \/ InviteRemoveLocal("c1")
    \/ Return("c1")

InviteSpec == InviteInit /\ [][InviteNext]_vars

----------------------------------------------------------------------------
\* Properties of the sequential client (SeqSpec)

PrivatePcs ==
    {"send_insert_fr", "send_push_sent", "send_post", "send_resp",
     "accept_read", "accept_remove_fr", "accept_pos", "accept_remove_rec",
     "accept_post", "accept_push_friend",
     "deny_read", "deny_remove_fr", "deny_pos", "deny_remove_rec",
     "deny_post", "deny_resp",
     "unfriend_retain", "unfriend_post", "unfriend_resp"}

\* the handler answered 200 and its POST was answered by the peer
Succeeded(call) ==
    call.pc = "done" /\ call.result = "ok" /\ call.net = "answered"

\* uuid is in none of the pending lists and maps of the identity's record
NotPending(d, id, uuid) ==
    /\ ~InSeq(Record(d, id).sent_friend_requests, uuid)
    /\ ~InSeq(Record(d, id).rec_friend_requests, uuid)
    /\ uuid \notin DOMAIN Record(d, id).friend_requests

\* the request before `call` was SendFriendRequest(A, call.user, call.uuid)
\* with a fresh uuid, and both completed with their POST answered
AfterFreshSend(call) ==
    /\ Succeeded(call)
    /\ last.op = "send" /\ Succeeded(last) /\ last.fresh
    /\ last.fr.from # last.fr.to
    /\ last.fr.to = call.user
    /\ last.fr.uuid = call.uuid

\* C1: SendFriendRequest(A,B,id) with a fresh id followed by
\* AcceptFriendRequest(B,id), both completed and every POST answered, ends
\* with B in A.friends, A in B.friends and id in no pending list or map of
\* A's or B's record.
C1_RoundTrip ==
    \A c \in Clients :
        (calls[c].op = "accept" /\ AfterFreshSend(calls[c]))
        => LET A == last.fr.from
               B == calls[c].user
           IN  /\ InSeq(Record(db, A).friends, B)
               /\ InSeq(Record(db, B).friends, A)
               /\ NotPending(db, A, calls[c].uuid)
               /\ NotPending(db, B, calls[c].uuid)

C1_Witness ==
    \E c \in Clients : calls[c].op = "accept" /\ AfterFreshSend(calls[c])

\* C2: when SendFriendRequest(A,B,id) with a fresh id, B registered on its
\* node, has completed with its POST answered, id was appended once to A's
\* sent list and once to B's received list, friend_requests[id] is the
\* request that was sent on both nodes, and both friends lists are as before.
SendCompleted(call) ==
    /\ call.op = "send" /\ Succeeded(call) /\ call.fresh
    /\ Registered(call.pre, call.fr.to)

C2_SendRecorded ==
    \A c \in Clients :
        SendCompleted(calls[c])
        => LET call == calls[c]
               A == Record(db, call.fr.from)
               B == Record(db, call.fr.to)
               id == call.fr.uuid
           IN  /\ A.sent_friend_requests
                    = Append(Record(call.pre, call.fr.from).sent_friend_requests, id)
               /\ Count(A.sent_friend_requests, id) = 1
               /\ B.rec_friend_requests
                    = Append(Record(call.pre, call.fr.to).rec_friend_requests, id)
               /\ Count(B.rec_friend_requests, id) = 1
               /\ id \in DOMAIN A.friend_requests /\ A.friend_requests[id] = call.fr
               /\ id \in DOMAIN B.friend_requests /\ B.friend_requests[id] = call.fr
               /\ A.friends = Record(call.pre, call.fr.from).friends
               /\ B.friends = Record(call.pre, call.fr.to).friends

C2_Witness ==
    \E c \in Clients :
        /\ SendCompleted(calls[c])
        /\ Record(calls[c].pre, calls[c].fr.from).sent_friend_requests # <<>>

\* C3 as stated: SendFriendRequest(A,B,id) followed by DenyFriendRequest(B,id),
\* every POST answered, ends with A not in B.friends, B not in A.friends and
\* id in no pending list or map of either record.
C3_DenyNotFriends ==
    \A c \in Clients :
        (calls[c].op = "deny" /\ AfterFreshSend(calls[c]))
        => LET A == last.fr.from
               B == calls[c].user
           IN  /\ ~InSeq(Record(db, A).friends, B)
               /\ ~InSeq(Record(db, B).friends, A)
               /\ NotPending(db, A, calls[c].uuid)
               /\ NotPending(db, B, calls[c].uuid)

\* C3 amended: the send followed by the deny leaves both friends lists as
\* they were before the send (A and B are friends afterwards exactly when
\* they were before), and id is in no pending list or map of either record.
C3_DenyKeepsFriends ==
    \A c \in Clients :
        (calls[c].op = "deny" /\ AfterFreshSend(calls[c]))
        => LET A == last.fr.from
               B == calls[c].user
           IN  /\ Record(db, A).friends = Record(last.pre, A).friends
               /\ Record(db, B).friends = Record(last.pre, B).friends
               /\ NotPending(db, A, calls[c].uuid)
               /\ NotPending(db, B, calls[c].uuid)

C3_Witness ==
    \E c \in Clients : calls[c].op = "deny" /\ AfterFreshSend(calls[c])

\* C4: Unfriend(A,B) started when A and B are in each other's friends list,
\* completed with its POST answered, ends with B not in A.friends and A not
\* in B.friends.
UnfriendOfMutual(call) ==
    /\ call.op = "unfriend" /\ Succeeded(call)
    /\ InSeq(Record(call.pre, call.fr.from).friends, call.fr.to)
    /\ InSeq(Record(call.pre, call.fr.to).friends, call.fr.from)

C4_Unfriend ==
    \A c \in Clients :
        UnfriendOfMutual(calls[c])
        => /\ ~InSeq(Record(db, calls[c].fr.from).friends, calls[c].fr.to)
           /\ ~InSeq(Record(db, calls[c].fr.to).friends, calls[c].fr.from)

C4_Witness ==
    \E c \in Clients : UnfriendOfMutual(calls[c])

\* C5: a SendFriendRequest whose id is already a key of the acting user's
\* friend_requests fails, leaves the stored request and the sent list as
\* they were, and issues no outbound call.
C5_DuplicateRejected ==
    \A c \in Clients :
        LET call == calls[c]
            before == Record(call.pre, call.fr.from)
            after == Record(db, call.fr.from)
        IN  (call.op = "send" /\ call.pc = "done"
             /\ call.fr.uuid \in DOMAIN before.friend_requests)
            => /\ call.result = "err"
               /\ call.net = "none"
               /\ after.friend_requests = before.friend_requests
               /\ after.sent_friend_requests = before.sent_friend_requests

\* C6: a private handler writes nothing to the acting node's store once its
\* outbound POST has been issued.
C6_LocalWritesBeforePost ==
    [][\A c \in Clients :
          (calls[c].pc \in PrivatePcs /\ calls[c].net # "none"
           /\ calls'[c] # calls[c])
          => db'[HomeNode(calls[c].user)] = db[HomeNode(calls[c].user)]]_vars

\* C7: when the POST of AcceptFriendRequest(B,id) fails at the transport
\* level the handler returns an error and B's record holds the whole local
\* half: id removed from friend_requests and rec_friend_requests and the
\* requester appended to B.friends.
C7_LocalHalfComplete ==
    \A c \in Clients :
        LET call == calls[c]
            B == Record(db, call.user)
        IN  (call.op = "accept" /\ call.pc = "done"
             /\ call.net \in {"refused", "lost"})
            => /\ call.result = "err"
               /\ call.uuid \notin DOMAIN B.friend_requests
               /\ Count(B.rec_friend_requests, call.uuid)
                    = Count(Record(call.pre, call.user).rec_friend_requests, call.uuid) - 1
               /\ B.friends = Append(Record(call.pre, call.user).friends, call.user_from)

\* C8: when the peer answers the outbound POST with an error status the
\* private handler reports failure to its caller.
C8_ErrorStatusFails ==
    \A c \in Clients :
        (calls[c].pc = "done" /\ calls[c].net = "answered" /\ calls[c].peer = "500")
        => calls[c].result = "err"

\* every id of the list is a key of the record's friend_requests map
AllDetailed(user, ids) ==
    \A i \in 1..Len(ids) : ids[i] \in DOMAIN user.friend_requests

\* C12: in every state, also between the steps of a handler in flight, every
\* id in a user's sent_friend_requests or rec_friend_requests is a key of
\* that user's friend_requests map.
C12_PendingInvariant ==
    \A id \in Identities :
        /\ AllDetailed(Record(db, id), Record(db, id).sent_friend_requests)
        /\ AllDetailed(Record(db, id), Record(db, id).rec_friend_requests)

\* C13: AcceptFriendRequest(acting_user, id) with id not in acting_user's
\* rec_friend_requests (unknown, or held only as a sent request) fails,
\* leaves acting_user's record unchanged and issues no outbound call.
C13_AcceptNotFound ==
    \A c \in Clients :
        LET call == calls[c]
        IN  (call.op = "accept" /\ call.pc = "done"
             /\ ~InSeq(Record(call.pre, call.user).rec_friend_requests, call.uuid))
            => /\ call.result = "err"
               /\ call.net = "none"
               /\ Record(db, call.user) = Record(call.pre, call.user)

\* the steps of the public and friend handlers
PublicPcs ==
    {"pub_send_insert_fr", "pub_send_push_rec",
     "pub_accept_retain", "pub_accept_read", "pub_accept_remove_fr",
     "pub_accept_push", "pub_deny_retain", "pub_deny_remove_fr",
     "pub_unfriend_retain"}

\* the identity whose username is in the path of the handler that is running
Addressee(call) == IF call.pc \in PublicPcs THEN call.to ELSE call.user

\* C14: a step of a private, public or friend handler addressed to a username
\* that is not registered on the node fails (the private handler returns an
\* error without an outbound call, the public or friend handler answers 500),
\* creates no record and leaves every record of every node unchanged; a read
\* or a transaction on that username fails with a not-found error.
C14_UnregisteredUser ==
    [][\A c \in Clients :
          LET call == calls[c]
              a == Addressee(call)
          IN  (call.pc \in PrivatePcs \cup PublicPcs /\ calls'[c] # call
               /\ HomeNode(a) \in Nodes /\ ~Registered(db, a))
              => /\ db' = db
                 /\ StateUser(db[HomeNode(a)], PathUser(a)).err = "Error getting user"
                 /\ TryUserMut(db[HomeNode(a)], PathUser(a), FPushFriend(a)).err
                      = "User not found"
                 /\ call.pc \in PrivatePcs
                      => /\ calls'[c].pc = "done"
                         /\ calls'[c].result = "err"
                         /\ calls'[c].net = "none"
                 /\ call.pc \in PublicPcs
                      => /\ calls'[c].pc = ResumePc(call.op)
                         /\ calls'[c].peer = "500"]_vars

\* a private handler addressed to an unregistered username has failed, and
\* then a public handler addressed to one has answered 500
C14_Witness ==
    /\ last.op \in {"send", "accept", "deny", "unfriend"}
    /\ last.result = "err" /\ last.net = "none"
    /\ ~Registered(db, last.user)
    /\ \E c \in Clients :
          /\ calls[c].net = "delivered" /\ calls[c].peer = "500"
          /\ ~Registered(db, calls[c].to)
          /\ Registered(db, calls[c].user)

\* C15: add-user for a username that already has a record fails and leaves
\* the record (friends, pending requests, invites) and the rest of the store
\* unchanged. With no request in flight before and after, the step is an
\* add-user call, recorded in `last`.
C15_RegisterKeepsRecord ==
    [][(AllIdle /\ AllIdle' /\ last'.op = "add_user" /\ Registered(db, last'.user))
       => /\ Record(db', last'.user) = Record(db, last'.user)
          /\ db' = db
          /\ last'.result = "err"]_vars

\* the local part of the request cannot succeed from the store the request
\* found: the acting user is not registered, or the id to accept or deny is
\* not a received request with an entry in friend_requests
LocalFails(call) ==
    \/ ~Registered(call.pre, call.user)
    \/ /\ call.op \in {"accept", "deny"}
       /\ \/ call.uuid \notin DOMAIN Record(call.pre, call.user).friend_requests
          \/ ~InSeq(Record(call.pre, call.user).rec_friend_requests, call.uuid)

\* C16: a private write request issues at most one outbound call; once it
\* has returned it has issued none when its local part failed (unknown user,
\* unknown id) and exactly one otherwise.
C16_AtMostOnePost ==
    \A c \in Clients :
        /\ calls[c].posts <= 1
        /\ calls[c].pc = "done"
              => calls[c].posts = (IF LocalFails(calls[c]) THEN 0 ELSE 1)

\* a request whose POST got no answer has returned an error
C16_Witness ==
    \E c \in Clients :
        /\ calls[c].pc = "done" /\ calls[c].net = "lost"
        /\ calls[c].posts = 1
        /\ last.pc = "done" /\ LocalFails(last) /\ last.posts = 0
        /\ Registered(last.pre, last.user)

\* the public or friend handler of the request has answered 200 and the
\* private handler has not resumed yet
PeerAnswered(call) ==
    /\ call.net = "delivered" /\ call.peer = "200"
    /\ call.pc = ResumePc(call.op)

\* the record of the addressed user once the receiver-side half of the
\* request has been applied to `user`
ReceiverHalf(call, user) ==
    CASE call.op = "send" ->
           [user EXCEPT !.friend_requests = MapInsert(@, call.fr.uuid, call.fr),
                        !.rec_friend_requests = Append(@, call.fr.uuid)]
      [] call.op = "accept" ->
           [user EXCEPT !.friend_requests = MapRemove(@, call.uuid),
                        !.sent_friend_requests = Retain(@, call.uuid),
                        !.friends = Append(@, user.friend_requests[call.uuid].to)]
      [] call.op = "deny" ->
           [user EXCEPT !.friend_requests = MapRemove(@, call.uuid),
                        !.sent_friend_requests = Retain(@, call.uuid)]
      [] OTHER ->
           [user EXCEPT !.friends = Retain(@, call.fr.from)]

\* C18: when a public or friend handler of main.rs has answered 200, the
\* store differs from the store at the time of the POST in the addressed
\* user's record only, and that record is the old one with the receiver-side
\* half applied: send inserts the request and appends id to
\* rec_friend_requests, accept removes id from friend_requests and
\* sent_friend_requests and appends the request's `to` to friends, deny
\* removes id from both and keeps friends, unfriend removes the notice's
\* `from` from friends; the request has issued its one POST and no other.
C18_ReceiverHalf ==
    \A c \in Clients :
        LET call == calls[c]
            n == HomeNode(call.to)
            before == Record(call.at_post, call.to)
        IN  PeerAnswered(call)
            => /\ Registered(call.at_post, call.to)
               /\ call.op \in {"accept", "deny"}
                    => call.uuid \in DOMAIN before.friend_requests
               /\ db = [call.at_post EXCEPT
                           ![n] = TreeInsert(@, PathUser(call.to),
                                             ReceiverHalf(call, before))]
               /\ call.posts = 1

\* the public accept handler has answered 200 for an id that was in the
\* addressed user's sent requests, after a public deny handler did
C18_Witness ==
    /\ last.op = "deny" /\ last.peer = "200"
    /\ \E c \in Clients :
          /\ PeerAnswered(calls[c])
          /\ calls[c].op = "accept"
          /\ InSeq(Record(calls[c].at_post, calls[c].to).sent_friend_requests,
                   calls[c].uuid)

\* C28: friends is a list without de-duplication: when a send with a fresh
\* id followed by its accept completes between two users who are in each
\* other's friends already, each of them is in the other's friends once
\* more than before (twice after two round trips).
C28_NoDeduplication ==
    \A c \in Clients :
        LET A == last.fr.from
            B == calls[c].user
        IN  (/\ calls[c].op = "accept" /\ AfterFreshSend(calls[c])
             /\ InSeq(Record(last.pre, A).friends, B)
             /\ InSeq(Record(last.pre, B).friends, A))
            => /\ Count(Record(db, A).friends, B)
                    = Count(Record(last.pre, A).friends, B) + 1
               /\ Count(Record(db, B).friends, A)
                    = Count(Record(last.pre, B).friends, A) + 1

\* the second round trip has completed: each is twice in the other's friends
C28_Witness ==
    \E c \in Clients :
        /\ calls[c].op = "accept" /\ AfterFreshSend(calls[c])
        /\ Record(last.pre, last.fr.from).friends = <<calls[c].user>>
        /\ Record(last.pre, calls[c].user).friends = <<last.fr.from>>
        /\ Record(db, last.fr.from).friends = <<calls[c].user, calls[c].user>>
        /\ Record(db, calls[c].user).friends = <<last.fr.from, last.fr.from>>

\* the public accept or deny handler is running, or has answered, for an id
\* that was not in the addressed user's sent_friend_requests when the POST
\* left
ResolvesUnsent(call) ==
    /\ call.pc \in {"pub_accept_retain", "pub_accept_read", "pub_accept_remove_fr",
                    "pub_accept_push", "accept_push_friend",
                    "pub_deny_retain", "pub_deny_remove_fr", "deny_resp"}
    /\ ~InSeq(Record(call.at_post, call.to).sent_friend_requests, call.uuid)

\* C30: the public accept and deny handlers of main.rs, called for an id
\* that is not in the addressed user's sent_friend_requests, leave that
\* user's record as it was and answer with an error.
C30_OnlySentResolved ==
    \A c \in Clients :
        ResolvesUnsent(calls[c])
        => /\ Record(db, calls[c].to) = Record(calls[c].at_post, calls[c].to)
           /\ calls[c].pc \in {"accept_push_friend", "deny_resp"}
                => calls[c].peer = "500"

----------------------------------------------------------------------------
\* Properties of the store's transactions (TxSpec)

\* C9: when the mutator of a transaction (try_user_mut, Users::transaction)
\* returns an error, the step that ends the call leaves every record of the
\* store as it was when the call began, and the call returns the mutator's
\* error.
C9_FailedMutatorLeavesStore ==
    [][\A t \in TxIds :
          (txs[t].pc # "done" /\ txs'[t].pc = "done" /\ txs'[t].result # "ok")
          => /\ db' = db
             /\ db'[TxNode] = txs[t].pre
             /\ txs'[t].err = RunBody(txs[t].pre, txs[t].key, txs[t].funcs, 1).err
             /\ txs'[t].err # ""]_vars

\* a mutator that failed after a write (to its copy, or to the view of its
\* transaction) has returned
C9_Witness ==
    \E t \in TxIds :
        /\ txs[t].pc = "done"
        /\ txs[t].result = "err"
        /\ txs[t].key \in DOMAIN db[TxNode]
        /\ \/ txs[t].funcs = <<FPushThenFail(Lyuma)>>
           \/ txs[t].i > 1

TxOrders ==
    {o \in [TxIds -> TxIds] : \A i, j \in TxIds : o[i] = o[j] => i = j}

\* the tree after the first n calls of order o ran one after the other
RECURSIVE SerialTree(_, _)
SerialTree(o, n) ==
    IF n = 0 THEN TxTree0
    ELSE Transaction(SerialTree(o, n - 1), txs[o[n]].key, txs[o[n]].funcs).tree

SerialStatus(o, n) ==
    Transaction(SerialTree(o, n - 1), txs[o[n]].key, txs[o[n]].funcs).status

AllTxDone == \A t \in TxIds : txs[t].pc = "done"

\* C10: once concurrent transactions have all returned, the tree and every
\* call's result are those of running the calls one after the other in some
\* order.
C10_Serializable ==
    AllTxDone
    => \E o \in TxOrders :
          /\ db[TxNode] = SerialTree(o, MaxTx)
          /\ \A n \in TxIds : txs[o[n]].result = SerialStatus(o, n)

\* two calls that both wrote the same record have returned
C10_Witness ==
    /\ AllTxDone
    /\ \E t, u \in TxIds :
          /\ t # u
          /\ txs[t].key = txs[u].key
          /\ txs[t].result = "ok" /\ txs[u].result = "ok"
          /\ txs[t].funcs = <<FPushFriend(Lyuma)>>
          /\ txs[u].funcs = TxAccept("0", Lyuma)

\* the closures of the accept and deny transactions of users.rs
UsersBodies == {TxDeny("0"), TxDeny("1"), TxAccept("0", Lyuma), TxAccept("1", Malek)}

\* malek's record shows the local half of resolving "0" whole or not at
\* all: the map entry and the received id are there together (and then no
\* friend was added) or gone together; request "1", which malek sent, is
\* untouched
WholeOrNothing(tree) ==
    LET user == tree["malek"]
    IN  /\ "0" \in DOMAIN user.friend_requests
             <=> InSeq(user.rec_friend_requests, "0")
        /\ "0" \in DOMAIN user.friend_requests => user.friends = <<>>
        /\ Len(user.friends) <= 1
        /\ "1" \in DOMAIN user.friend_requests
        /\ user.sent_friend_requests = <<"1">>

\* C25: with the accept and deny transactions of users.rs running
\* concurrently, the tree a reader sees and the tree every transaction
\* starts from show the removal from friend_requests, the removal from
\* rec_friend_requests and accept's append to friends all together or not
\* at all; a call for an id that is in friend_requests and not in
\* rec_friend_requests returns an error, and the store is untouched when
\* every call failed.
C25_AllOrNothing ==
    (\A t \in TxIds : txs[t].funcs \in UsersBodies)
    => /\ WholeOrNothing(db[TxNode])
       /\ \A t \in TxIds :
             /\ txs[t].pc \notin {"idle", "begin"} => WholeOrNothing(txs[t].pre)
             /\ (txs[t].pc = "done" /\ txs[t].key = "malek"
                  /\ txs[t].funcs \in {TxDeny("1"), TxAccept("1", Malek)})
                => txs[t].result = "err"
       /\ (\A t \in TxIds : txs[t].pc = "done" /\ txs[t].result # "ok")
          => db[TxNode] = TxTree0

\* an accept of "0" is between its removals (its view has lost the map entry
\* and still lists the id) after a deny of the sent request "1" has failed
C25_Witness ==
    \E t, u \in TxIds :
        /\ txs[t].funcs = TxAccept("0", Lyuma) /\ txs[t].key = "malek"
        /\ txs[t].pc = "get" /\ txs[t].i = 2
        /\ "0" \notin DOMAIN txs[t].view["malek"].friend_requests
        /\ InSeq(txs[t].view["malek"].rec_friend_requests, "0")
        /\ txs[u].funcs = TxDeny("1") /\ txs[u].key = "malek"
        /\ txs[u].pc = "done" /\ txs[u].result = "err"

----------------------------------------------------------------------------
\* Properties of concurrent senders on one node (IsoSpec)

\* the local half of the send has run: the handler went on to its POST
SentLocally(call) ==
    call.op = "send" /\ call.pc = "done" /\ call.net # "none"

\* C11: when SendFriendRequest calls for malek and robin, both hosted on
\* localhost:8000, run concurrently, a call whose local half has run leaves
\* its user's record as it was when the call began plus its own request (id
\* appended to sent_friend_requests, friend_requests[id] the request), and in
\* every state each of the two records holds only requests of its own user.
C11_Isolation ==
    \A c \in Clients :
        LET call == calls[c]
            U == IsoUser(c)
            before == Record(call.pre, U)
        IN  /\ SentLocally(call)
               => Record(db, U) =
                    [before EXCEPT
                        !.friend_requests = MapInsert(@, call.fr.uuid, call.fr),
                        !.sent_friend_requests = Append(@, call.fr.uuid)]
            /\ \A k \in DOMAIN Record(db, U).friend_requests :
                  Record(db, U).friend_requests[k].from = U
            /\ Record(db, U).rec_friend_requests = <<>>
            /\ Record(db, U).friends = <<>>

\* both calls were in flight together, with the same id, and both have run
\* their local half
C11_Witness ==
    /\ SentLocally(calls["c1"]) /\ SentLocally(calls["c2"])
    /\ calls["c1"].fr.uuid = calls["c2"].fr.uuid
    /\ calls["c1"].pre = calls["c2"].pre

----------------------------------------------------------------------------
\* Properties of the handlers with stepped transactions (FlightSpec)

\* the outbound call of the request has been issued and not yet answered
InFlight(call) == call.net = "delivered" /\ call.pc # "done"

\* C17: while the outbound call of a request is in flight its handler does
\* not hold the transaction guard of the acting node, and the guard is held
\* only by a handler that is inside the closure of a transaction.
C17_NoTxWhileInFlight ==
    \A c \in Clients :
        /\ InFlight(calls[c]) => lock # ClientId(c)
        /\ lock = ClientId(c)
             => calls[c].pc \in {"f_send_insert_fr", "f_send_push_sent", "u_accept_body"}

\* while one request of malek awaits the answer to its POST, another request
\* of malek has opened its transaction after a record of the acting node
\* was committed to
C17_Witness ==
    \E c, d \in Clients :
        /\ InFlight(calls[c])
        /\ calls[d].user = calls[c].user
        /\ lock = ClientId(d)
        /\ Record(db, calls[c].user) # Record(calls[c].at_post, calls[c].user)

----------------------------------------------------------------------------
\* Properties of the invite operations (InviteSpec)

\* the friends list and the friend-request state of a record
FriendState(user) ==
    <<user.friends, user.friend_requests, user.sent_friend_requests,
      user.rec_friend_requests>>

\* C19: when SendInvite(from, to, id) has completed with its POST delivered
\* and answered 2xx, id is once in the sender's sent_invites and once in the
\* receiver's rec_invites, invites[id] on the receiver (and on the sender) is
\* the invite that was sent, and no friends list has changed.
C19_SendInvite ==
    \A c \in Clients :
        LET call == calls[c]
            A == Record(db, call.fr.from)
            B == Record(db, call.fr.to)
        IN  (call.op = "send_invite" /\ Succeeded(call))
            => /\ Count(A.sent_invites, call.uuid) = 1
               /\ Count(B.rec_invites, call.uuid) = 1
               /\ call.uuid \in DOMAIN B.invites /\ B.invites[call.uuid] = call.fr
               /\ call.uuid \in DOMAIN A.invites /\ A.invites[call.uuid] = call.fr
               /\ \A id \in Identities :
                     Record(db, id).friends = Record(call.pre, id).friends

\* an invite from lyuma to malek has been delivered while they are friends
C19_Witness ==
    \E c \in Clients :
        /\ calls[c].op = "send_invite" /\ Succeeded(calls[c])
        /\ calls[c].fr.from = Lyuma
        /\ Record(db, Malek).friends = <<Lyuma>>

\* remove-invite(id) has returned on the node of one party of an invite that
\* both parties held, right after it returned on the node of the other
BothRemoved(call) ==
    /\ call.op = "remove_invite" /\ call.pc = "done"
    /\ last.op = "remove_invite" /\ last.uuid = call.uuid
    /\ last.user # call.user
    /\ call.uuid \in DOMAIN Record(last.pre, last.user).invites
    /\ call.uuid \in DOMAIN Record(last.pre, call.user).invites
    /\ Record(last.pre, last.user).invites[call.uuid]
         = Record(last.pre, call.user).invites[call.uuid]
    /\ InSeq(Record(last.pre, Record(last.pre, last.user).invites[call.uuid].from).sent_invites,
             call.uuid)
    /\ InSeq(Record(last.pre, Record(last.pre, last.user).invites[call.uuid].to).rec_invites,
             call.uuid)

\* C20: once an invite id sent from L to M has been removed with
\* remove-invite on both M's node and L's node, id is in neither party's
\* rec_invites, sent_invites or invites, and no friends list and no
\* friend-request state differs from before the removals.
C20_RemoveInvite ==
    \A c \in Clients :
        BothRemoved(calls[c])
        => \A id \in Identities :
              /\ ~InSeq(Record(db, id).rec_invites, calls[c].uuid)
              /\ ~InSeq(Record(db, id).sent_invites, calls[c].uuid)
              /\ calls[c].uuid \notin DOMAIN Record(db, id).invites
              /\ FriendState(Record(db, id)) = FriendState(Record(last.pre, id))

C20_Witness ==
    \E c \in Clients :
        /\ BothRemoved(calls[c])
        /\ calls[c].user = Lyuma
        /\ Record(db, Lyuma).friends = <<Malek>>

----------------------------------------------------------------------------
\* Properties of two requests served at the same time (ConcSpec)

\* no handler is running and no message is on its way
Quiescent == \A c \in Clients : calls[c].pc \in {"idle", "done"}

\* every request that was issued returned Ok(()) after its one POST was
\* delivered and answered 200
AllSucceeded ==
    \A c \in Clients :
        calls[c].op # "idle" => (Succeeded(calls[c]) /\ calls[c].peer = "200")

Friend(d, a, b) == InSeq(Record(d, a).friends, b)

\* C21: in every quiescent state reached by interleaved send / accept /
\* deny / unfriend requests between malek and lyuma whose federation calls
\* were all delivered and answered successfully, lyuma is in malek's friends
\* exactly when malek is in lyuma's friends.
C21_SymmetricFriendship ==
    (Quiescent /\ AllSucceeded)
    => (Friend(db, Malek, Lyuma) <=> Friend(db, Lyuma, Malek))

\* an accept or deny of a request that the acting user held as received
\* (id in rec_friend_requests and in friend_requests) when the call began
ResolvesPending(call) ==
    /\ call.op \in {"accept", "deny"}
    /\ InSeq(Record(call.pre, call.user).rec_friend_requests, call.uuid)
    /\ call.uuid \in DOMAIN Record(call.pre, call.user).friend_requests

\* C22: when two accept / deny calls for two different pending ids of the
\* same user were served concurrently by main.rs and both handlers are over,
\* neither indexed past the end of rec_friend_requests (no unwind), and each
\* id is out of the user's rec_friend_requests and friend_requests.
C22_TwoIdsSerialize ==
    \A c, d \in Clients :
        (/\ c # d
         /\ ResolvesPending(calls[c]) /\ ResolvesPending(calls[d])
         /\ calls[c].user = calls[d].user /\ calls[c].uuid # calls[d].uuid
         /\ calls[c].pc = "done" /\ calls[d].pc = "done")
        => /\ calls[c].result # "panic"
           /\ ~InSeq(Record(db, calls[c].user).rec_friend_requests, calls[c].uuid)
           /\ calls[c].uuid \notin DOMAIN Record(db, calls[c].user).friend_requests

\* every send used an id that was pending nowhere, and no two sends used
\* the same id
UniqueIds ==
    /\ \A c \in Clients : calls[c].op = "send" => calls[c].fresh
    /\ \A c, d \in Clients :
          (c # d /\ calls[c].op = "send" /\ calls[d].op = "send")
          => calls[c].fr.uuid # calls[d].fr.uuid

\* every request either made no federation call or had its POST delivered
\* and answered 200
AllDelivered ==
    \A c \in Clients :
        calls[c].posts = 0 \/ (calls[c].net = "answered" /\ calls[c].peer = "200")

PendingSymmetric(d) ==
    \A uuid \in Uuids \cup {"2"} : \A a, b \in Identities :
        a # b =>
          /\ InSeq(Record(d, a).sent_friend_requests, uuid)
               <=> InSeq(Record(d, b).rec_friend_requests, uuid)
          /\ ~(/\ InSeq(Record(d, a).sent_friend_requests, uuid)
               /\ InSeq(Record(d, a).rec_friend_requests, uuid))

\* C24: with unique request ids and every federation call delivered, in
\* every quiescent state of the main.rs servers an id is in one user's
\* sent_friend_requests exactly when it is in the other's
\* rec_friend_requests, and in no user's sent and received ids at once.
C24_PendingSymmetry ==
    (Quiescent /\ UniqueIds /\ AllDelivered) => PendingSymmetric(db)

\* C29: whenever a handler of main.rs is about to run the transaction with
\* `friend_requests.remove(id).unwrap()` (private accept and deny, public
\* accept), the entry for id is in the record it runs on, whatever other
\* request is served at the same time.
C29_UnwrapFindsEntry ==
    \A c \in Clients :
        /\ calls[c].pc \in {"accept_remove_fr", "deny_remove_fr"}
             => calls[c].uuid \in DOMAIN Record(db, calls[c].user).friend_requests
        /\ calls[c].pc = "pub_accept_remove_fr"
             => calls[c].uuid \in DOMAIN Record(db, calls[c].to).friend_requests

----------------------------------------------------------------------------
\* Properties of the accept and deny calls for one request (ResolveSpec)

\* the POSTs made so far by the calls for the request
ResolutionsSent ==
    last.posts + calls["c1"].posts + calls["c2"].posts

\* C23: for the one pending request "0" of malek to lyuma, whatever accept
\* and deny calls of lyuma run at the same time or one after the other (on
\* main.rs and on users.rs), at most one resolution is posted to the
\* requester's node, and malek occurs in lyuma's friends, and lyuma in
\* malek's, at most once more than before the calls.
C23_ResolvedOnce ==
    /\ ResolutionsSent <= 1
    /\ Count(Record(db, Lyuma).friends, Malek)
         <= Count(Record(last.pre, Lyuma).friends, Malek) + 1
    /\ Count(Record(db, Malek).friends, Lyuma)
         <= Count(Record(last.pre, Malek).friends, Lyuma) + 1

\* two calls that both began while the request was pending are over, one of
\* them having posted its resolution
C23_Witness ==
    /\ \A c \in Clients :
          /\ calls[c].pc = "done"
          /\ InSeq(Record(calls[c].pre, Lyuma).rec_friend_requests, "0")
          /\ "0" \in DOMAIN Record(calls[c].pre, Lyuma).friend_requests
    /\ calls["c1"].result = "ok" /\ calls["c1"].posts = 1
    /\ calls["c2"].result # "ok"

----------------------------------------------------------------------------
\* Properties of the users.rs router (UsersSpec)

\* C26: a handler of users.rs that was called by a peer (public or friend
\* route) updates its store and calls nobody: a request causes at most one
\* POST, and at most the client's handler and the peer's handler run for it.
C26_NoFurtherCall ==
    \A c \in Clients : calls[c].posts <= 1 /\ Len(calls[c].stack) <= 2

----------------------------------------------------------------------------
\* Properties of unfriend (UnfriendSpec)

\* the record with every entry equal to `who` taken out of friends, the
\* other entries in their order, and nothing else changed
WithoutFriend(user, who) ==
    [user EXCEPT !.friends = SelectSeq(@, LAMBDA f : f # who)]

\* C27: once the local half of Unfriend(A, B) has run, A's record is the one
\* from before the request with every entry equal to B taken out of friends,
\* the other entries in their order and requests and invites untouched;
\* B's record is unchanged until the friend-tier handler has answered, and
\* then it is the old one with every entry equal to A taken out of friends.
C27_UnfriendRemovesAll ==
    \A c \in Clients :
        LET call == calls[c]
            A == call.fr.from
            B == call.fr.to
        IN  (call.op = "unfriend" /\ call.pc # "unfriend_retain")
            => /\ Record(db, A) = WithoutFriend(Record(call.pre, A), B)
               /\ ~InSeq(Record(db, A).friends, B)
               /\ Record(db, B) = IF call.peer = "200"
                                  THEN WithoutFriend(Record(call.pre, B), A)
                                  ELSE Record(call.pre, B)

\* malek, who had lyuma twice in friends around robin, has unfriended lyuma,
\* and lyuma's node has answered
C27_Witness ==
    \E c \in Clients :
        /\ calls[c].op = "unfriend" /\ calls[c].pc = "done"
        /\ calls[c].peer = "200"
        /\ calls[c].user = Malek
        /\ Record(calls[c].pre, Malek).friends = <<Lyuma, Robin, Lyuma>>
        /\ Record(calls[c].pre, Lyuma).friends = <<Malek, Malek>>
        /\ Record(db, Malek).friends = <<Robin>>

----------------------------------------------------------------------------
\* Properties of the request details and of the frame of the handlers
\* (SeqSpec)

\* every key of the record's friend_requests map is in one of its id lists
NoOrphan(user) ==
    \A uuid \in DOMAIN user.friend_requests :
        \/ InSeq(user.sent_friend_requests, uuid)
        \/ InSeq(user.rec_friend_requests, uuid)

\* C31: in every state, also between the steps of a handler in flight and
\* after a failed or completed send, accept or deny, every key of a user's
\* friend_requests map is in that user's sent_friend_requests or
\* rec_friend_requests.
C31_NoOrphanDetails ==
    \A id \in Identities : NoOrphan(Record(db, id))

\* the record under key u of node n is not the same before and after the step
Changed(n, u) ==
    \/ (u \in DOMAIN db[n]) # (u \in DOMAIN db'[n])
    \/ u \in DOMAIN db[n] /\ u \in DOMAIN db'[n] /\ db[n][u] # db'[n][u]

\* the step is one of a handler that runs on node n with username u in its path
HandlerOf(n, u) ==
    \/ \E c \in Clients :
           /\ calls'[c] # calls[c]
           /\ calls[c] # Idle
           /\ HomeNode(Addressee(calls[c])) = n
           /\ PathUser(Addressee(calls[c])) = u
    \/ /\ calls' = calls
       /\ last'.op = "add_user"
       /\ HomeNode(last'.user) = n
       /\ PathUser(last'.user) = u

\* C32: a step changes a record of a node only when it is a step of a
\* handler running on that node with the record's username in its path; the
\* records of the other usernames of the node, and every record of the
\* other node, are the same before and after the step.
C32_OwnershipFrame ==
    [][\A n \in Nodes :
          \A u \in DOMAIN db[n] \cup DOMAIN db'[n] :
              Changed(n, u) => HandlerOf(n, u)]_vars

\* lyuma's accept has been answered by malek's node: malek's record was
\* written by the public handler, lyuma's by the private one, and robin's
\* record, on malek's node, still holds his two pending requests
C32_Witness ==
    \E c \in Clients :
        /\ calls[c].op = "accept" /\ calls[c].pc = "done"
        /\ calls[c].user = Lyuma /\ calls[c].to = Malek
        /\ calls[c].peer = "200"
        /\ Record(db, Malek) # Record(calls[c].pre, Malek)
        /\ Record(db, Lyuma) # Record(calls[c].pre, Lyuma)
        /\ Record(db, Robin) = Record(calls[c].pre, Robin)
        /\ Record(db, Robin).sent_friend_requests = <<"0", "0">>

----------------------------------------------------------------------------
\* Properties of the GET endpoints and of send and deny (ReadSpec)

\* every record of the store has the same friends before and after the step
FriendsKept ==
    \A n \in Nodes :
        /\ DOMAIN db'[n] = DOMAIN db[n]
        /\ \A u \in DOMAIN db[n] : db'[n][u].friends = db[n][u].friends

\* C33: a step of a GET handler changes no record, and a step of the send
\* or deny handler, private or public half, leaves the friends list of
\* every user as it was.
C33_FriendsFrame ==
    [][\A c \in Clients :
          calls'[c] # calls[c]
          => /\ calls[c].op \in GetOps => db' = db
             /\ calls[c].op \in {"send", "deny"} => FriendsKept]_vars

\* lyuma, a friend of malek, has denied malek's request and malek's node
\* has answered: both records changed, both friends lists did not; the
\* second client has read malek's friends meanwhile
C33_Witness ==
    /\ calls["c1"].op = "deny" /\ calls["c1"].pc = "done"
    /\ calls["c1"].user = Lyuma /\ calls["c1"].peer = "200"
    /\ Record(db, Lyuma) # Record(calls["c1"].pre, Lyuma)
    /\ Record(db, Malek) # Record(calls["c1"].pre, Malek)
    /\ Record(db, Lyuma).friends = <<Malek>>
    /\ Record(db, Malek).friends = <<Lyuma>>
    /\ calls["c2"].op = "get_friends" /\ calls["c2"].pc = "done"
    /\ calls["c2"].user = Malek /\ calls["c2"].result = "ok"

----------------------------------------------------------------------------
\* Properties of the friends lists (SeqSpec)

\* C34: with every friend request sent between two different identities
\* and the public and friend routes called only by the nodes' own POSTs, no
\* user is ever in their own friends list.
C34_NoSelfFriendship ==
    \A id \in Identities : ~InSeq(Record(db, id).friends, id)

====
